---- MODULE Spec2Model ----
(***************************************************************************)
(* A model of the vault compiler of gramjos.github.io.                     *)
(*                                                                         *)
(*   - SpecBuild   : VaultBuilder (src/build.py), the recursive walk that  *)
(*                   builds pages, directories and the alias/path indices. *)
(*   - SpecResolve : resolve_asset_reference (src/builder/assets.py).      *)
(*   - SpecRender  : the image/embed branch of render_markdown             *)
(*                   (src/builder/markdown.py) with normalise_image_src.   *)
(*   - SpecConvert : MarkdownConverter.convert (src/build.py), one line of  *)
(*                   the text per step.                                    *)
(*   - SpecInline  : MarkdownConverter._render_inline on one text.         *)
(*   - SpecOutput  : SpecBuild on an output directory that may hold files  *)
(*                   of an earlier run.                                    *)
(*   - SpecResolveFair : SpecResolve called from any directory, a call     *)
(*                   that runs on (weak fairness of the turn of the loop). *)
(*                                                                         *)
(* Paths are sequences of names.  A name is a string; the string functions *)
(* of the code (str.lower, Path.stem, Path.suffix, str.title, ...) are     *)
(* tabulated on the names the model uses.                                  *)
(***************************************************************************)
EXTENDS Integers, Sequences, FiniteSets, TLC

VARIABLES
    \* ---- VaultBuilder (src/build.py)
    vault,          \* the source tree on disk: a set of entries
    pc,             \* where build() is: "edit", "scan", "scanned", "done", "failed"
    run,            \* 1 for the first build of the vault, 2 for the re-run
    stack,          \* the call stack of _scan_directory
    pages,          \* self.pages
    directories,    \* self.directories
    alias_index,    \* self.alias_index
    path_index,     \* self.path_index
    site_title,     \* self.site_title
    home_page_id,   \* self.home_page_id
    about_page_id,  \* self.about_page_id
    site_data,      \* the site-data.json written by build(), None before
    prev_data,      \* the site-data.json of the previous build of the same vault
    reg_order,      \* history: page ids in the order _register_page saw them
    scanned,        \* history: directories _scan_directory was called on
    output,         \* the files in self.output, the output directory
    \* ---- resolve_asset_reference (src/builder/assets.py)
    fs,             \* the filesystem: absolute path -> node
    rpc,            \* "setup", "off", "walk" (at line 101), "tried" (at line 113), "returned"
    source_dir,     \* the argument source_dir, resolved (line 77)
    reference,      \* the argument reference
    current_dir,    \* current_dir of the loop of lines 100-116
    result,         \* the value returned, None for none
    \* ---- render_markdown, image branch (src/builder/markdown.py)
    mpc,            \* "off", "setup" (page not yet rendered), "rendered"
    page_dir,       \* source_file.parent, the directory of the page
    src,            \* src of the image match (line 65)
    resolved_path,  \* resolved_path of line 70
    resolved_asset_path, \* resolved_asset_path of normalise_image_src (line 38)
    html_lines,     \* html_lines: what the page's image line has become
    \* ---- MarkdownConverter.convert (src/build.py)
    cpc,            \* "off", "lines" (in the loop), "flushed" (loop left), "returned"
    lines,          \* the lines of the text the loop has taken so far
    html_out,       \* html_lines of convert
    list_stack,     \* list_stack: (tag, indent) of the open lists
    in_code_block,  \* in_code_block
    current_paragraph, \* current_paragraph
    blockquote_stack,  \* blockquote_stack: indents of the open blockquotes
    first_heading,  \* first_heading, NoString for None
    \* ---- MarkdownConverter._render_inline (src/build.py)
    ipc,            \* "off", "write" (the text is being written), "rendered"
    written,        \* the string put into the text, as pieces
    form,           \* the markup the string is put into
    text,           \* the argument text, as characters
    rendered,       \* the value returned
    wiki_links,     \* the list wiki_links afterwards
    local_links,    \* the list local_links afterwards
    external_links  \* the list external_links afterwards

bvars == <<vault, pc, run, stack, pages, directories, alias_index, path_index,
           site_title, home_page_id, about_page_id, site_data, prev_data,
           reg_order, scanned, output>>

rvars == <<fs, rpc, source_dir, reference, current_dir, result>>

mvars == <<mpc, page_dir, src, resolved_path, resolved_asset_path, html_lines>>

cvars == <<cpc, lines, html_out, list_stack, in_code_block, current_paragraph,
           blockquote_stack, first_heading>>

ivars == <<ipc, written, form, text, rendered, wiki_links, local_links, external_links>>

vars == <<bvars, rvars, mvars, cvars, ivars>>

-----------------------------------------------------------------------------
(* Bounds *)

\* at most this many files and directories below the vault root
MaxEntries == 4

\* at most this many files, directories and links at the places the resolver
\* looks at
MaxNodes == 2

\* at most this many lines in a text that is converted
MaxLines == 4

\* at most this many pieces in the string put into an inline text
MaxPieces == 2

-----------------------------------------------------------------------------
(* Python values *)

\* Python's None where a path, a page id or a record is expected
None == <<>>

\* Python's None where a string is expected (as falsy as the empty string)
NoString == ""

\* dict[k] = v
Put(f, k, v) == [x \in (DOMAIN f) \cup {k} |-> IF x = k THEN v ELSE f[x]]

\* dict.setdefault(k, v): the dict afterwards
SetDefault(f, k, v) == IF k \in DOMAIN f THEN f ELSE Put(f, k, v)

Last(s) == s[Len(s)]

Front(s) == SubSeq(s, 1, Len(s) - 1)

Range(s) == {s[i] : i \in DOMAIN s}

-----------------------------------------------------------------------------
(* Strings: the string functions of the code on the names of the model *)

\* str.lower()
Lower(s) ==
    CASE s = "README.md"   -> "readme.md"
      [] s = "README.html" -> "readme.html"
      [] s = "README"      -> "readme"
      [] s = "Readme"      -> "readme"
      [] s = "Notes.md"    -> "notes.md"
      [] s = "Notes"       -> "notes"
      [] s = "About"       -> "about"
      [] s = "Root"        -> "root"
      [] s = "Vault"       -> "vault"
      [] s = "Img"         -> "img"
      [] s = "A"           -> "a"
      [] s = "B"           -> "b"
      [] s = "Graphics"    -> "graphics"
      [] s = ".Hid"        -> ".hid"
      [] s = ".Git"        -> ".git"
      [] s = "Intro"       -> "intro"
      [] s = "Aboutus"     -> "aboutus"
      [] s = "Xreadme"     -> "xreadme"
      [] OTHER             -> s

\* the lowered names in str order (code point order), as sorted() compares them
LoweredInOrder ==
    <<".git", ".hid", "a", "about", "about.md", "aboutus", "b", "graphics", "home",
      "img", "img.png", "intro", "notes", "notes.md", "readme", "readme.html",
      "readme.md", "root", "vault", "xreadme", "xreadme.md">>

\* the place of a name's lowered form in str order
Rank(s) == CHOOSE i \in DOMAIN LoweredInOrder : LoweredInOrder[i] = Lower(s)

\* Path(name).stem
Stem(s) ==
    CASE s = "README.md"   -> "README"
      [] s = "readme.md"   -> "readme"
      [] s = "README.html" -> "README"
      [] s = "notes.md"    -> "notes"
      [] s = "Notes.md"    -> "Notes"
      [] s = "about.md"    -> "about"
      [] s = "xreadme.md"  -> "xreadme"
      [] s = "img.png"     -> "img"
      [] OTHER             -> s

\* Path(name).suffix.lower()
SuffixLower(s) ==
    CASE s \in {"README.md", "readme.md", "notes.md", "Notes.md", "about.md",
                "xreadme.md"} -> ".md"
      [] s = "README.html" -> ".html"
      [] s = "img.png"     -> ".png"
      [] OTHER             -> ""

\* re.sub(r"[_-]+", " ", stem).title()
TitleCase(s) ==
    CASE s \in {"README", "readme"} -> "Readme"
      [] s \in {"notes", "Notes"}   -> "Notes"
      [] s = "about"                -> "About"
      [] s = "img"                  -> "Img"
      [] s = "a"                    -> "A"
      [] s = "b"                    -> "B"
      [] s = "graphics"             -> "Graphics"
      [] s = "vault"                -> "Vault"
      [] s = ".hid"                 -> ".Hid"
      [] s = ".git"                 -> ".Git"
      [] s = "aboutus"              -> "Aboutus"
      [] s = "xreadme"              -> "Xreadme"
      [] OTHER                      -> s

\* name.startswith(".")
StartsWithDot(s) == s \in {".git", ".hid", ".obsidian", ".DS_Store"}

\* s.lower().startswith("about")
StartsWithAbout(s) == Lower(s) \in {"about", "about.md", "aboutus"}

\* name.endswith('.excalidraw.md') or name.endswith('.excalidraw')
IsExcalidrawName(s) == s \in {"d.excalidraw", "d.excalidraw.md"}

\* rel_path.lower().endswith("readme.md")
EndsWithReadmeMd(s) == Lower(s) \in {"readme.md", "xreadme.md"}

-----------------------------------------------------------------------------
(* The vault on disk *)

\* the name of the vault's own directory (self.source.name)
SourceName == "vault"

\* An entry of the vault: its path below the vault root, its kind, and for a
\* Markdown file its first H1/H2 heading as convert reports it in
\* metadata["headings"], for an HTML file the text of its <h1>, "" when it has
\* none.
F(path, h) == [path |-> path, kind |-> "file", h |-> h]

D(path) == [path |-> path, kind |-> "dir", h |-> ""]

\* the files and directories a vault of the model is made of
Universe ==
    { F(<<"README.md">>, ""), F(<<"README.md">>, "Notes"), F(<<"readme.md">>, ""),
      F(<<"README.html">>, ""), F(<<"notes.md">>, ""), F(<<"Notes.md">>, ""),
      F(<<"about.md">>, ""), F(<<"img.png">>, ""), F(<<"xreadme.md">>, ""),
      D(<<"a">>), D(<<"graphics">>), D(<<".git">>), D(<<".hid">>),
      F(<<"a", "README.md">>, ""), F(<<"a", "notes.md">>, ""),
      D(<<"a", "b">>), F(<<"a", "b", "README.md">>, ""),
      F(<<"graphics", "notes.md">>, ""), F(<<"graphics", "img.png">>, ""),
      F(<<".git", "README.md">>, ""), F(<<".hid", "README.md">>, ""),
      F(<<"notes.md">>, "Intro"),
      D(<<"about">>), F(<<"about", "README.md">>, ""),
      D(<<"aboutus">>), F(<<"aboutus", "README.md">>, "") }

\* the directories of the vault, the root (the empty path) included
DirsOf(v) == {<<>>} \cup {e.path : e \in {x \in v : x.kind = "dir"}}

\* directory.iterdir(): the entries directly inside directory d
Children(d) == {e \in vault : Front(e.path) = d}

\* path.name
Name(d) == IF d = <<>> THEN SourceName ELSE Last(d)

\* p.is_file()
IsFile(e) == e.kind = "file"

\* p.is_dir()
IsDir(e) == e.kind = "dir"

-----------------------------------------------------------------------------
(* src/build.py: module constants *)

README_BASENAMES == {"readme.md", "readme.html"}

ALLOWED_MD_EXTENSIONS == {".md", ".markdown"}

SKIP_DIR_NAMES == {".git", "__pycache__", ".obsidian", ".DS_Store"}

GRAPHICS_DIR_NAME == "graphics"

-----------------------------------------------------------------------------
(* src/build.py: VaultBuilder helpers *)

\* sorted(S, key=...): sorted() is stable, so elements with equal keys keep the
\* order in which the iterable produced them; iterdir() and set iteration give
\* no order, so every order of the elements with equal keys can come out.
RECURSIVE SortedSeqs(_, _)
SortedSeqs(S, key) ==
    IF S = {} THEN {<<>>}
    ELSE LET mins == {e \in S : \A f \in S : key[e] <= key[f]}
         IN  UNION {{<<e>> \o t : t \in SortedSeqs(S \ {e}, key)} : e \in mins}

\* the sort key of line 406: (p.is_file(), p.name.lower())
EntryKey(e) == (IF IsFile(e) THEN Len(LoweredInOrder) ELSE 0) + Rank(Last(e.path))

\* entries = sorted(directory.iterdir(), key=lambda p: (p.is_file(), p.name.lower()))
SortedEntries(d) == SortedSeqs(Children(d), [e \in Children(d) |-> EntryKey(e)])

\* next((p for p in entries if p.is_file() and p.name.lower() == lowered), None)
RECURSIVE FirstReadme(_, _)
FirstReadme(entries, lowered) ==
    IF entries = <<>> THEN None
    ELSE IF IsFile(Head(entries)) /\ Lower(Last(Head(entries).path)) = lowered
         THEN Head(entries)
         ELSE FirstReadme(Tail(entries), lowered)

\* rel_dir_str: "." for the vault root, else the posix path
DirStr(d) == IF d = <<>> THEN <<".">> ELSE d

\* _parent_dir_str
ParentDirStr(rel_dir_str) ==
    IF rel_dir_str \in {<<>>, <<".">>} THEN None
    ELSE DirStr(Front(rel_dir_str))

\* _title_from_filename
TitleFromFilename(name) == TitleCase(Stem(name))

\* _title_from_directory; directory == directory.parent only at the filesystem
\* root, which the resolved vault path of the model is not
TitleFromDirectory(d) == TitleCase(Name(d))

\* a title that prefers the heading for every page
PageTitleHeadingFirst(e, is_readme) ==
    IF e.h # "" THEN e.h
    ELSE IF is_readme THEN TitleFromDirectory(Front(e.path))
         ELSE TitleFromFilename(Last(e.path))

\* the title computed by _process_markdown_file (lines 490-500),
\* _process_html_readme (540) and _process_html_page (559)
PageTitle(e, is_readme) ==
    LET name == Last(e.path)
    IN  IF SuffixLower(name) \in ALLOWED_MD_EXTENSIONS
        THEN IF is_readme
             THEN IF e.h # "" THEN e.h ELSE TitleFromDirectory(Front(e.path))
             ELSE TitleFromFilename(name)
        ELSE IF e.h # "" THEN e.h
             ELSE IF is_readme THEN TitleFromDirectory(Front(e.path))
                  ELSE TitleFromFilename(name)

\* the set built by _default_aliases before it is sorted
AliasSet(rel_path, title, is_readme) ==
    {title, Stem(Last(rel_path)), Last(rel_path)}
    \cup (IF is_readme
          THEN {IF Front(rel_path) # <<>> THEN Last(Front(rel_path)) ELSE "Root"}
               \cup (IF Front(rel_path) = <<>> THEN {"home"} ELSE {})
          ELSE {})

\* _default_aliases: sorted(set(cleaned), key=lambda a: a.lower())
DefaultAliases(rel_path, title, is_readme) ==
    LET S == AliasSet(rel_path, title, is_readme) \ {""}
    IN  SortedSeqs(S, [a \in S |-> Rank(a)])

\* the type of the page
PageType(e, is_readme) ==
    IF SuffixLower(Last(e.path)) \in ALLOWED_MD_EXTENSIONS /\ IsExcalidrawName(Last(e.path))
    THEN "excalidraw"
    ELSE IF is_readme THEN "readme" ELSE "page"

\* the PageRecord of a file, given the order its aliases came out in
PageRecord(e, is_readme, aliases) ==
    [page_id   |-> e.path,
     title     |-> PageTitle(e, is_readme),
     rel_path  |-> e.path,
     dir_path  |-> DirStr(Front(e.path)),
     page_type |-> PageType(e, is_readme),
     aliases   |-> aliases]

\* _register_page: self.pages afterwards
RegisterPages(page) == Put(pages, page.page_id, page)

\* _register_page: self.path_index afterwards
RegisterPathIndex(page) ==
    LET first == Put(path_index, page.rel_path, page.page_id)
    IN  IF EndsWithReadmeMd(Last(page.rel_path))
        THEN Put(first, Front(page.rel_path) \o <<"README.md">>, page.page_id)
        ELSE first

\* a registration that assigns alias_index[key] instead of setdefault
RegisterAliasIndexOverwrite(page) ==
    LET keys == {Lower(a) : a \in Range(page.aliases)} \ {""}
    IN  [k \in (DOMAIN alias_index) \cup keys |->
            IF k \in keys THEN page.page_id ELSE alias_index[k]]

\* _register_page, lines 581-585: self.alias_index afterwards; every alias of
\* the page goes through setdefault with the same page id
RegisterAliasIndex(page) ==
    LET keys == {Lower(a) : a \in Range(page.aliases)} \ {""}
    IN  [k \in (DOMAIN alias_index) \cup keys |->
            IF k \in DOMAIN alias_index THEN alias_index[k] ELSE page.page_id]

\* the test of _maybe_set_about on the page's rel_path
AboutMatch(rel_path) ==
    \/ \E i \in DOMAIN rel_path : Lower(rel_path[i]) = "about"
    \/ StartsWithAbout(Stem(Last(rel_path)))
    \/ StartsWithAbout(Last(rel_path))

\* an about page that every later match replaces
MaybeSetAboutLastWins(page) ==
    IF AboutMatch(page.rel_path) THEN page.page_id ELSE about_page_id

\* _maybe_set_about: self.about_page_id afterwards
MaybeSetAbout(page) ==
    IF about_page_id # None THEN about_page_id
    ELSE IF AboutMatch(page.rel_path) THEN page.page_id ELSE about_page_id

\* the directory entry of lines 421-432
NewDirEntry(d) ==
    [path           |-> DirStr(d),
     name           |-> IF DirStr(d) = <<".">> THEN "Root" ELSE Name(d),
     parent         |-> ParentDirStr(DirStr(d)),
     readmeId       |-> None,
     subdirectories |-> <<>>,
     pageIds        |-> <<>>,
     assetPaths     |-> <<>>]

\* a home page taken from the README of whatever directory is scanned first
HomePageIdAnyDirectory(rel_dir_str, readme_id) ==
    IF readme_id # None /\ home_page_id = None THEN readme_id ELSE home_page_id

\* lines 441-442: self.home_page_id after the README of rel_dir_str
HomePageIdAfter(rel_dir_str, readme_id) ==
    IF rel_dir_str = <<".">> /\ readme_id # None /\ home_page_id = None
    THEN readme_id ELSE home_page_id

\* a walk that gives up on a directory without a README
DescendsNever(path) == FALSE

\* line 416: the loop over a directory without a README scans this entry
DescendsUnpublished(path) == IsDir(path) /\ Last(path.path) \notin SKIP_DIR_NAMES

\* a caller that lists every scanned child
AppendsEveryChild(caller_phase, returns) == caller_phase = "published"

\* lines 452-453: the caller lists the child in "subdirectories"
AppendsSubdirectory(caller_phase, returns) == caller_phase = "published" /\ returns

\* a frame of _scan_directory: "call" on entry, "unpublished" in the loop of
\* lines 415-417, "published" in the loop of lines 444-471
Frame(d, phase, entries, i) == [dir |-> d, phase |-> phase, entries |-> entries, i |-> i]

Top == stack[Len(stack)]

\* the stack with its top frame replaced
WithTop(f) == [stack EXCEPT ![Len(stack)] = f]

\* the effect of registering one page and offering it to _maybe_set_about
RegisterAndAbout(page) ==
    /\ pages' = RegisterPages(page)
    /\ path_index' = RegisterPathIndex(page)
    /\ alias_index' = RegisterAliasIndex(page)
    /\ about_page_id' = MaybeSetAbout(page)
    /\ reg_order' = Append(reg_order, page.page_id)

\* the files below TEMPLATES_DIR (line 17); the directory is not part of the
\* sources, the site's index.html stands for its files
TemplateFiles == {<<"index.html">>}

\* _prepare_output_dir: self.output afterwards; the directory is made if it
\* is missing (exist_ok) and every template file is copied into it
PrepareOutputDir == output \cup TemplateFiles

\* _copy_asset: self.output afterwards
CopyAsset(path) == output \cup {path}

\* site_title after a README is processed (lines 503-505)
SiteTitleAfter(e) ==
    IF e.path = <<Last(e.path)>> /\ Lower(Last(e.path)) = "readme.md"
    THEN SourceName ELSE site_title

-----------------------------------------------------------------------------
(* src/build.py: VaultBuilder, one action per step of build() *)

\* the state of a freshly constructed VaultBuilder (__init__)
FreshBuilder ==
    /\ pages = <<>>
    /\ directories = <<>>
    /\ alias_index = <<>>
    /\ path_index = <<>>
    /\ site_title = NoString
    /\ home_page_id = None
    /\ about_page_id = None

\* the resolver at rest, on an empty filesystem
ResolverIdle ==
    /\ fs = <<>>
    /\ rpc = "off"
    /\ source_dir = None
    /\ reference = None
    /\ current_dir = None
    /\ result = None

\* no page is being rendered
RendererIdle ==
    /\ mpc = "off"
    /\ page_dir = None
    /\ src = None
    /\ resolved_path = None
    /\ resolved_asset_path = None
    /\ html_lines = <<>>

\* no text is being converted
ConverterIdle ==
    /\ cpc = "off"
    /\ lines = <<>>
    /\ html_out = <<>>
    /\ list_stack = <<>>
    /\ in_code_block = FALSE
    /\ current_paragraph = <<>>
    /\ blockquote_stack = <<>>
    /\ first_heading = NoString

\* no inline text is being rendered
InlineIdle ==
    /\ ipc = "off"
    /\ written = <<>>
    /\ form = NoString
    /\ text = <<>>
    /\ rendered = <<>>
    /\ wiki_links = <<>>
    /\ local_links = <<>>
    /\ external_links = <<>>

InitBuild ==
    /\ ResolverIdle
    /\ RendererIdle
    /\ ConverterIdle
    /\ InlineIdle
    /\ vault = {}
    /\ pc = "edit"
    /\ run = 1
    /\ stack = <<>>
    /\ FreshBuilder
    /\ site_data = None
    /\ prev_data = None
    /\ reg_order = <<>>
    /\ scanned = {}
    /\ output = {}

\* The author adds a file or a directory to the vault before it is built.
AddEntry ==
    /\ UNCHANGED <<rvars, mvars, cvars, ivars>>
    /\ pc = "edit"
    /\ Cardinality(vault) < MaxEntries
    /\ \E e \in Universe :
        /\ Front(e.path) \in DirsOf(vault)
        /\ \A x \in vault : x.path # e.path
        /\ vault' = vault \cup {e}
    /\ UNCHANGED <<pc, run, stack, pages, directories, alias_index, path_index,
                   site_title, home_page_id, about_page_id, site_data, prev_data,
                   reg_order, scanned, output>>

\* build(), lines 359-361: the paths are valid, the output directory is
\* prepared and _scan_directory(self.source) is called
Build ==
    /\ UNCHANGED <<rvars, mvars, cvars, ivars>>
    /\ pc = "edit"
    /\ pc' = "scan"
    /\ output' = PrepareOutputDir
    /\ stack' = <<Frame(<<>>, "call", <<>>, 0)>>
    /\ UNCHANGED <<vault, run, pages, directories, alias_index, path_index,
                   site_title, home_page_id, about_page_id, site_data, prev_data,
                   reg_order, scanned>>

\* _scan_directory, lines 401-442: from the call to the start of a loop
ScanDirectory ==
    /\ UNCHANGED <<rvars, mvars, cvars, ivars>>
    /\ pc = "scan"
    /\ stack # <<>>
    /\ Top.phase = "call"
    /\ scanned' = scanned \cup {Top.dir}
    /\ LET d == Top.dir
           rel_dir_str == DirStr(d)
       IN  IF Name(d) \in SKIP_DIR_NAMES /\ d # <<>>
           THEN \* return False
                /\ stack' = WithTop(Frame(d, "skipped", <<>>, 1))
                /\ UNCHANGED <<pages, directories, alias_index, path_index, site_title,
                               home_page_id, about_page_id, reg_order>>
           ELSE \E entries \in SortedEntries(d) :
                LET readme_md == FirstReadme(entries, "readme.md")
                    readme_html == FirstReadme(entries, "readme.html")
                    readme == IF readme_md # None THEN readme_md ELSE readme_html
                    dirs1 == SetDefault(directories, rel_dir_str, NewDirEntry(d))
                IN  IF /\ Name(d) # GRAPHICS_DIR_NAME
                       /\ rel_dir_str # <<".">>
                       /\ readme_md = None
                       /\ readme_html = None
                    THEN /\ stack' = WithTop(Frame(d, "unpublished", entries, 1))
                         /\ UNCHANGED <<pages, directories, alias_index, path_index,
                                        site_title, home_page_id, about_page_id,
                                        reg_order>>
                    ELSE /\ stack' = WithTop(Frame(d, "published", entries, 1))
                         /\ IF readme = None
                            THEN /\ directories' = dirs1
                                 /\ UNCHANGED <<pages, alias_index, path_index,
                                                site_title, home_page_id,
                                                about_page_id, reg_order>>
                            ELSE \E aliases \in DefaultAliases(readme.path,
                                                   PageTitle(readme, TRUE), TRUE) :
                                 LET page == PageRecord(readme, TRUE, aliases)
                                 IN  /\ RegisterAndAbout(page)
                                     /\ directories' =
                                          [dirs1 EXCEPT ![rel_dir_str].readmeId = page.page_id]
                                     /\ site_title' =
                                          IF readme_md # None THEN SiteTitleAfter(readme)
                                          ELSE site_title
                                     /\ home_page_id' =
                                          HomePageIdAfter(rel_dir_str, page.page_id)
    /\ UNCHANGED <<vault, pc, run, site_data, prev_data, output>>

\* one iteration of the loop of lines 415-417 (a directory without a README)
ScanUnpublishedEntry ==
    /\ UNCHANGED <<rvars, mvars, cvars, ivars>>
    /\ pc = "scan"
    /\ stack # <<>>
    /\ Top.phase = "unpublished"
    /\ Top.i <= Len(Top.entries)
    /\ LET path == Top.entries[Top.i]
       IN  IF DescendsUnpublished(path)
           THEN stack' = Append(stack, Frame(path.path, "call", <<>>, 0))
           ELSE stack' = WithTop([Top EXCEPT !.i = @ + 1])
    /\ UNCHANGED <<vault, pc, run, pages, directories, alias_index, path_index,
                   site_title, home_page_id, about_page_id, site_data, prev_data,
                   reg_order, scanned, output>>

\* one iteration of the loop of lines 444-471 (a published directory)
ScanEntry ==
    /\ UNCHANGED <<rvars, mvars, cvars, ivars>>
    /\ pc = "scan"
    /\ stack # <<>>
    /\ Top.phase = "published"
    /\ Top.i <= Len(Top.entries)
    /\ LET path == Top.entries[Top.i]
           name == Last(path.path)
           key == DirStr(Top.dir)
           advance == WithTop([Top EXCEPT !.i = @ + 1])
           is_page == SuffixLower(name) \in ALLOWED_MD_EXTENSIONS \/ SuffixLower(name) = ".html"
       IN  IF StartsWithDot(name) /\ name \notin {".obsidian"}
           THEN /\ stack' = advance
                /\ UNCHANGED <<pages, directories, alias_index, path_index,
                               about_page_id, reg_order, output>>
           ELSE IF IsDir(path)
           THEN /\ stack' = IF name \in SKIP_DIR_NAMES THEN advance
                            ELSE Append(stack, Frame(path.path, "call", <<>>, 0))
                /\ UNCHANGED <<pages, directories, alias_index, path_index,
                               about_page_id, reg_order, output>>
           ELSE IF Lower(name) = "readme.md" \/ Lower(name) = "readme.html"
           THEN /\ stack' = advance
                /\ UNCHANGED <<pages, directories, alias_index, path_index,
                               about_page_id, reg_order, output>>
           ELSE IF is_page
           THEN \E aliases \in DefaultAliases(path.path, PageTitle(path, FALSE), FALSE) :
                LET page == PageRecord(path, FALSE, aliases)
                IN  /\ RegisterAndAbout(page)
                    /\ directories' =
                         [directories EXCEPT ![key].pageIds = Append(@, page.page_id)]
                    /\ stack' = advance
                    /\ UNCHANGED output
           ELSE \* _copy_asset, then the asset is recorded
                /\ output' = CopyAsset(path.path)
                /\ directories' =
                     [directories EXCEPT ![key].assetPaths = Append(@, path.path)]
                /\ stack' = advance
                /\ UNCHANGED <<pages, alias_index, path_index, about_page_id, reg_order>>
    /\ UNCHANGED <<vault, pc, run, site_title, home_page_id, site_data, prev_data,
                   scanned>>

\* _scan_directory returns: False at lines 404 and 418, True at line 473; the
\* caller's loop goes on (lines 417, 452-454), or build() does (line 362)
ScanReturn ==
    /\ UNCHANGED <<rvars, mvars, cvars, ivars>>
    /\ pc = "scan"
    /\ stack # <<>>
    /\ Top.phase \in {"skipped", "unpublished", "published"}
    /\ Top.i > Len(Top.entries)
    /\ LET returns == (Top.phase = "published")
           child == Top.dir
           rest == Front(stack)
       IN  IF rest = <<>>
           THEN /\ stack' = <<>>
                /\ pc' = "scanned"
                /\ UNCHANGED directories
           ELSE LET caller == Last(rest)
                    key == DirStr(caller.dir)
                IN  /\ stack' = [rest EXCEPT ![Len(rest)].i = @ + 1]
                    /\ pc' = pc
                    /\ directories' =
                         IF AppendsSubdirectory(caller.phase, returns)
                         THEN [directories EXCEPT
                                 ![key].subdirectories = Append(@, child)]
                         ELSE directories
    /\ UNCHANGED <<vault, run, pages, alias_index, path_index, site_title,
                   home_page_id, about_page_id, site_data, prev_data, reg_order,
                   scanned, output>>

\* what build() serialises (lines 365-375); json.dumps(sort_keys=True) writes
\* every dict in key order, so a dict is the mapping it holds
SiteData ==
    [siteTitle   |-> IF site_title # NoString THEN site_title ELSE SourceName,
     homePageId  |-> home_page_id,
     aboutPageId |-> about_page_id,
     pages       |-> pages,
     directories |-> directories,
     aliasIndex  |-> alias_index,
     pathIndex   |-> path_index]

\* build(), lines 362-379
Finish ==
    /\ UNCHANGED <<rvars, mvars, cvars, ivars>>
    /\ pc = "scanned"
    /\ IF home_page_id = None
       THEN /\ pc' = "failed"
            /\ UNCHANGED <<site_data, output>>
       ELSE /\ pc' = "done"
            /\ site_data' = SiteData
            /\ output' = output \cup {<<"site-data.json">>}
    /\ UNCHANGED <<vault, run, stack, pages, directories, alias_index, path_index,
                   site_title, home_page_id, about_page_id, prev_data, reg_order,
                   scanned>>

\* The compiler is run again on the unchanged vault: a new process, a new
\* VaultBuilder, build() up to the call of _scan_directory(self.source).
Rebuild ==
    /\ UNCHANGED <<rvars, mvars, cvars, ivars>>
    /\ pc = "done"
    /\ run = 1
    /\ run' = 2
    /\ prev_data' = site_data
    /\ site_data' = None
    /\ pc' = "scan"
    /\ stack' = <<Frame(<<>>, "call", <<>>, 0)>>
    /\ pages' = <<>>
    /\ directories' = <<>>
    /\ alias_index' = <<>>
    /\ path_index' = <<>>
    /\ site_title' = NoString
    /\ home_page_id' = None
    /\ about_page_id' = None
    /\ reg_order' = <<>>
    /\ scanned' = {}
    /\ output' = PrepareOutputDir
    /\ UNCHANGED vault

NextBuild ==
    \/ AddEntry
    \/ Build
    \/ ScanDirectory
    \/ ScanUnpublishedEntry
    \/ ScanEntry
    \/ ScanReturn
    \/ Finish
    \/ Rebuild

SpecBuild == InitBuild /\ [][NextBuild]_vars

\* the compiler is run on an output directory that may hold files of an
\* earlier run: one that no vault of the model has, one with the name of an
\* asset
InitOutput ==
    /\ ResolverIdle
    /\ RendererIdle
    /\ ConverterIdle
    /\ InlineIdle
    /\ vault = {}
    /\ pc = "edit"
    /\ run = 1
    /\ stack = <<>>
    /\ FreshBuilder
    /\ site_data = None
    /\ prev_data = None
    /\ reg_order = <<>>
    /\ scanned = {}
    /\ output \in SUBSET {<<"old.png">>, <<"img.png">>}

SpecOutput == InitOutput /\ [][NextBuild]_vars

-----------------------------------------------------------------------------
(* Properties of the vault graph builder, checked under SpecBuild *)

\* the build has ended, with site-data.json written ("done") or with the
\* RuntimeError of line 363 ("failed")
Ended == pc \in {"done", "failed"}

\* directory d of the vault holds a README.md or README.html file, in any case
HasReadme(d) ==
    \E e \in vault : Front(e.path) = d /\ IsFile(e) /\ Lower(Last(e.path)) \in README_BASENAMES

\* the README files of the vault root
RootReadmes == {e \in vault : Len(e.path) = 1 /\ IsFile(e) /\ Lower(Last(e.path)) \in README_BASENAMES}

\* every path listed in some Directory's subdirectories
ListedSubdirectories ==
    UNION {Range(directories[k].subdirectories) : k \in DOMAIN directories}

\* C1 as stated: after a successful build, every path listed in a Directory's
\* subdirectories is a key of the directories map with a readmeId that is not
\* none.
C1_SubdirsHaveReadme ==
    pc = "done" =>
        \A s \in ListedSubdirectories :
            s \in DOMAIN directories /\ directories[s].readmeId # None

\* C1 amended: after a successful build, every path listed in a Directory's
\* subdirectories is a key of the directories map, and its readmeId is not
\* none unless the directory is named graphics.
C1_SubdirsAreNodes ==
    pc = "done" =>
        \A s \in ListedSubdirectories :
            /\ s \in DOMAIN directories
            /\ directories[s].readmeId # None \/ Last(s) = GRAPHICS_DIR_NAME

\* C1 witness: a successful build listed a subdirectory that has a README,
\* beside a directory without one that it did not list
C1_Witness ==
    /\ pc = "done"
    /\ \E s \in ListedSubdirectories : Last(s) # GRAPHICS_DIR_NAME
    /\ \E d \in scanned : d # <<>> /\ d \notin ListedSubdirectories

\* C2 as stated: no file inside a directory named graphics is ever a Page: it
\* is in none of pages, pathIndex, aliasIndex, pageIds and readmeId.
InGraphics(path) == \E i \in 1..(Len(path) - 1) : path[i] = GRAPHICS_DIR_NAME

C2_GraphicsNeverPages ==
    /\ \A p \in DOMAIN pages : ~InGraphics(p)
    /\ \A k \in DOMAIN path_index : ~InGraphics(path_index[k])
    /\ \A k \in DOMAIN alias_index : ~InGraphics(alias_index[k])
    /\ \A k \in DOMAIN directories :
          /\ ~InGraphics(directories[k].readmeId)
          /\ \A p \in Range(directories[k].pageIds) : ~InGraphics(p)

\* C3: a path is a key of the directories map only if it is the vault root,
\* is named graphics or holds a README; a directory that is none of these is
\* never a node and never listed in a subdirectories list, yet once the walk
\* is over every subdirectory of it outside SKIP_DIR_NAMES has been scanned,
\* and every scanned directory that holds a README is a node with a readmeId.
Unpublishable(d) == d # <<>> /\ Last(d) # GRAPHICS_DIR_NAME /\ ~HasReadme(d)

C3_NodesNeedReadme ==
    /\ \A k \in DOMAIN directories :
          \/ k = <<".">>
          \/ Last(k) = GRAPHICS_DIR_NAME
          \/ HasReadme(k)
    /\ \A d \in DirsOf(vault) :
          Unpublishable(d) => DirStr(d) \notin DOMAIN directories
                              /\ d \notin ListedSubdirectories
    /\ Ended =>
          \A d \in scanned :
              /\ Unpublishable(d) =>
                    \A c \in DirsOf(vault) :
                        (c # <<>> /\ Front(c) = d /\ Last(c) \notin SKIP_DIR_NAMES)
                            => c \in scanned
              /\ (d # <<>> /\ HasReadme(d)) =>
                    /\ d \in DOMAIN directories
                    /\ directories[d].readmeId # None

\* C3 witness: the walk is over, and a directory with a README that lies in
\* a directory without one is a node
C3_Witness ==
    /\ Ended
    /\ \E d \in scanned :
          /\ d # <<>> /\ Unpublishable(Front(d)) /\ HasReadme(d)
          /\ d \in DOMAIN directories

\* C4: within a build, a key of aliasIndex keeps its value from one step to
\* the next, and at any time aliasIndex maps a key to the first page, in
\* registration order, that has an alias equal to the key up to letter case.
AliasKeys(page_id) == {Lower(a) : a \in Range(pages[page_id].aliases)}

FirstWithKey(k) ==
    reg_order[CHOOSE i \in DOMAIN reg_order :
                  /\ k \in AliasKeys(reg_order[i])
                  /\ \A j \in 1..(i - 1) : k \notin AliasKeys(reg_order[j])]

AliasFirstWins ==
    /\ \A i \in DOMAIN reg_order : AliasKeys(reg_order[i]) \subseteq DOMAIN alias_index
    /\ \A k \in DOMAIN alias_index :
          /\ \E i \in DOMAIN reg_order : k \in AliasKeys(reg_order[i])
          /\ alias_index[k] = FirstWithKey(k)

AliasKept ==
    run' = run =>
        \A k \in DOMAIN alias_index :
            k \in DOMAIN alias_index' /\ alias_index'[k] = alias_index[k]

C4_AliasFirstWins == [](AliasFirstWins) /\ [][AliasKept]_vars

\* C4 witness: two pages with a common alias key have been registered
C4_Witness ==
    \E i, j \in DOMAIN reg_order :
        /\ i < j
        /\ AliasKeys(reg_order[i]) \cap AliasKeys(reg_order[j]) # {}
        /\ \E k \in AliasKeys(reg_order[j]) : k \notin AliasKeys(reg_order[i])

\* C5: the build ends in the fatal error exactly when the vault root has no
\* README, whatever lies elsewhere in the tree, and then no site-data.json is
\* written; when the root has a README the build succeeds and homePageId is
\* the page id of the root's README, as written to site-data.json.
C5_HomeIsRootReadme ==
    /\ pc = "failed" => RootReadmes = {} /\ site_data = None
    /\ pc = "done" =>
          /\ RootReadmes # {}
          /\ home_page_id \in {e.path : e \in RootReadmes}
          /\ home_page_id = directories[<<".">>].readmeId
          /\ home_page_id \in DOMAIN pages
          /\ site_data.homePageId = home_page_id
    /\ pc = "scanned" => (home_page_id = None <=> RootReadmes = {})

\* C5 witness: a build failed on a vault with a README and a page below the
\* root
C5_Witness ==
    /\ pc = "failed"
    /\ \E e \in vault : Len(e.path) > 1 /\ Lower(Last(e.path)) = "readme.md"
    /\ pages # <<>>

\* C6 as stated: the re-run on the unchanged vault writes the pages,
\* directories, aliasIndex, pathIndex, homePageId and aboutPageId that the
\* first build wrote.
C6_RebuildIdentical ==
    (pc = "done" /\ run = 2) =>
        /\ site_data.pages = prev_data.pages
        /\ site_data.directories = prev_data.directories
        /\ site_data.aliasIndex = prev_data.aliasIndex
        /\ site_data.pathIndex = prev_data.pathIndex
        /\ site_data.homePageId = prev_data.homePageId
        /\ site_data.aboutPageId = prev_data.aboutPageId

-----------------------------------------------------------------------------
(* The filesystem the resolver looks at *)

\* ctx.source_root: the vault root, an absolute resolved path
SourceRoot == <<"v">>

Node(kind, target) == [kind |-> kind, target |-> target]

\* what is always there: the filesystem root, the vault with a directory a,
\* their graphics directories, and outside the vault the files /d and
\* /d.excalidraw and a directory /graphics with the same two files
FixedFs ==
    [p \in {<<>>, <<"v">>, <<"v", "a">>, <<"v", "graphics">>, <<"v", "a", "graphics">>,
            <<"graphics">>} |-> Node("dir", None)]
    @@ [p \in {<<"d">>, <<"d.excalidraw">>, <<"graphics", "d">>,
               <<"graphics", "d.excalidraw">>} |-> Node("file", None)]

\* the places inside the vault where a file, a directory or a link may be
Slots ==
    {Append(d, n) : d \in {<<"v">>, <<"v", "a">>, <<"v", "graphics">>,
                           <<"v", "a", "graphics">>},
                    n \in {"d", "d.excalidraw"}}

\* what may be at such a place: a regular file, a directory, or a symbolic
\* link to the file of the same name outside the vault
NodesAt(p) == {Node("file", None), Node("dir", None), Node("link", <<Last(p)>>)}

\* the directories a Markdown file that refers to an asset lies in
SourceDirs == {<<"v">>, <<"v", "a">>}

\* A reference string: segments joined by the separator, written in one of
\* four ways: "plain" (a/b), "backslash" (a\b), "absolute" (/a/b) and
\* "padded" (the plain string with a blank before and after it).
Ref(style, segs) == [style |-> style, segs |-> segs]

Segments == {"..", "d", "d.excalidraw", "d.excalidraw.md", "graphics", "a"}

References ==
    {Ref(st, <<x>>) : st \in {"plain", "absolute", "padded"}, x \in Segments}
    \cup {Ref(st, <<x, y>>) : st \in {"plain", "backslash", "absolute", "padded"},
                              x \in Segments, y \in Segments}

-----------------------------------------------------------------------------
(* Strings and paths of src/builder *)

\* reference.replace("\\", "/")
NormaliseSeparators(ref) ==
    IF ref.style = "backslash" THEN Ref("plain", ref.segs) ELSE ref

\* str.strip()
Strip(ref) == IF ref.style = "padded" THEN Ref("plain", ref.segs) ELSE ref

\* "/" in ref
ContainsSlash(ref) ==
    \/ ref.style = "absolute"
    \/ ref.style \in {"plain", "padded"} /\ Len(ref.segs) > 1

\* "." in s, for a segment s
HasDot(s) == s \in {"..", "d.excalidraw", "d.excalidraw.md", "D.EXCALIDRAW.MD"}

\* "." in ref
ContainsDot(ref) == \E i \in DOMAIN ref.segs : HasDot(ref.segs[i])

\* the parts pathlib splits the string ref + suffix into; a blank is part of
\* the name it touches, and a backslash is no separator
PathParts(ref, suffix) ==
    LET n == Len(ref.segs)
    IN  CASE ref.style \in {"plain", "absolute"} ->
                [i \in 1..n |-> IF i = n THEN ref.segs[i] \o suffix ELSE ref.segs[i]]
          [] ref.style = "padded" ->
                [i \in 1..n |->
                    (IF i = 1 THEN " " ELSE "") \o ref.segs[i]
                    \o (IF i = n THEN " " \o suffix ELSE "")]
          [] ref.style = "backslash" ->
                <<ref.segs[1] \o "\\" \o ref.segs[2] \o suffix>>

\* Path.parent; the parent of the filesystem root is the root
Parent(p) == IF p = <<>> THEN <<>> ELSE Front(p)

\* Path.resolve() of base / parts for a resolved base: ".." steps to the
\* parent, a symbolic link is followed, a part that does not exist is kept
RECURSIVE ResolveFrom(_, _)
ResolveFrom(base, parts) ==
    IF parts = <<>> THEN base
    ELSE LET c == Head(parts)
             p == Append(base, c)
         IN  IF c = ".." THEN ResolveFrom(Parent(base), Tail(parts))
             ELSE IF p \in DOMAIN fs /\ fs[p].kind = "link"
                  THEN ResolveFrom(fs[p].target, Tail(parts))
                  ELSE ResolveFrom(p, Tail(parts))

\* (dir / (ref + suffix)).resolve(): an absolute string replaces dir
Candidate(dir, ref, suffix) ==
    ResolveFrom(IF ref.style = "absolute" THEN <<>> ELSE dir, PathParts(ref, suffix))

\* a containment test that lets every path through
IsWithinAlways(path, ancestor) == TRUE

\* is_within (utils.py): path.relative_to(ancestor) does not raise
IsWithin(path, ancestor) ==
    Len(path) >= Len(ancestor) /\ SubSeq(path, 1, Len(ancestor)) = ancestor

\* candidate.exists() and candidate.is_file() and is_within(candidate, ctx.source_root)
Accepts(candidate) ==
    /\ candidate \in DOMAIN fs
    /\ fs[candidate].kind = "file"
    /\ IsWithin(candidate, SourceRoot)

-----------------------------------------------------------------------------
(* src/builder/assets.py: resolve_asset_reference *)

\* a resolver that searches on after a broken multi-segment path
StopsNever(normalised_ref) == FALSE

\* line 85: a reference with a separator that was not found is a broken link
StopsAtSeparator(normalised_ref) == ContainsSlash(normalised_ref)

\* lines 79-97, rules 1, 2 and 2b. found: the file returned; stop: the
\* function returns (the file, or none at line 86) before the loop
DirectFind(dir, normalised_ref) ==
    LET direct_candidate == Candidate(dir, normalised_ref, "")
        candidate_in_same_dir == Candidate(dir, normalised_ref, "")
        excalidraw_candidate == Candidate(dir, normalised_ref, ".excalidraw")
    IN  IF Accepts(direct_candidate)
        THEN [stop |-> TRUE, found |-> direct_candidate]
        ELSE IF StopsAtSeparator(normalised_ref)
        THEN [stop |-> TRUE, found |-> None]
        ELSE IF Accepts(candidate_in_same_dir)
        THEN [stop |-> TRUE, found |-> candidate_in_same_dir]
        ELSE IF ~ContainsDot(normalised_ref) /\ Accepts(excalidraw_candidate)
        THEN [stop |-> TRUE, found |-> excalidraw_candidate]
        ELSE [stop |-> FALSE, found |-> None]

\* a loop body that tries the .excalidraw name before the name itself
WalkFindExcalidrawFirst(dir, normalised_ref) ==
    LET graphics_dir == Append(dir, "graphics")
        candidate_in_graphics == Candidate(graphics_dir, normalised_ref, "")
        excalidraw_in_graphics == Candidate(graphics_dir, normalised_ref, ".excalidraw")
    IN  IF ~ContainsDot(normalised_ref) /\ Accepts(excalidraw_in_graphics)
        THEN excalidraw_in_graphics
        ELSE IF Accepts(candidate_in_graphics)
        THEN candidate_in_graphics
        ELSE None

\* lines 102-111, rules 3 and 3b at current_dir: the file returned, or None
WalkFind(dir, normalised_ref) ==
    LET graphics_dir == Append(dir, "graphics")
        candidate_in_graphics == Candidate(graphics_dir, normalised_ref, "")
        excalidraw_in_graphics == Candidate(graphics_dir, normalised_ref, ".excalidraw")
    IN  IF Accepts(candidate_in_graphics)
        THEN candidate_in_graphics
        ELSE IF ~ContainsDot(normalised_ref) /\ Accepts(excalidraw_in_graphics)
        THEN excalidraw_in_graphics
        ELSE None

\* lines 100-118: the loop, from current_dir on
RECURSIVE GraphicsWalk(_, _)
GraphicsWalk(dir, normalised_ref) ==
    LET f == WalkFind(dir, normalised_ref)
    IN  IF f # None THEN f
        ELSE IF dir = SourceRoot THEN None
        ELSE GraphicsWalk(Parent(dir), normalised_ref)

\* resolve_asset_reference as a function, for a source_dir inside the vault
ResolveAssetReference(dir, ref) ==
    LET normalised_ref == NormaliseSeparators(ref)
        sd == ResolveFrom(<<>>, dir)
        first == DirectFind(sd, normalised_ref)
    IN  IF first.stop THEN first.found ELSE GraphicsWalk(sd, normalised_ref)

\* the builder at rest while the resolver runs
BuilderOff ==
    /\ vault = {}
    /\ pc = "off"
    /\ run = 1
    /\ stack = <<>>
    /\ FreshBuilder
    /\ site_data = None
    /\ prev_data = None
    /\ reg_order = <<>>
    /\ scanned = {}
    /\ output = {}

InitResolve ==
    /\ BuilderOff
    /\ RendererIdle
    /\ ConverterIdle
    /\ InlineIdle
    /\ fs = FixedFs
    /\ rpc = "setup"
    /\ source_dir = None
    /\ reference = None
    /\ current_dir = None
    /\ result = None

\* A file, a directory or a link is put into the vault.
CreateNode ==
    /\ UNCHANGED <<bvars, mvars, cvars, ivars>>
    /\ rpc = "setup"
    /\ mpc # "rendered"
    /\ Cardinality(DOMAIN fs \cap Slots) < MaxNodes
    /\ \E p \in Slots \ DOMAIN fs : \E n \in NodesAt(p) : fs' = Put(fs, p, n)
    /\ UNCHANGED <<rpc, source_dir, reference, current_dir, result>>

\* resolve_asset_reference is called with a source_dir of dirs: lines 76-100
ResolveAt(dirs) ==
    /\ UNCHANGED <<bvars, mvars, cvars, ivars>>
    /\ rpc = "setup"
    /\ \E dir \in dirs, ref \in References :
        LET normalised_ref == NormaliseSeparators(ref)
            sd == ResolveFrom(<<>>, dir)
            first == DirectFind(sd, normalised_ref)
        IN  /\ source_dir' = sd
            /\ reference' = ref
            /\ IF first.stop
               THEN /\ rpc' = "returned"
                    /\ result' = first.found
                    /\ current_dir' = None
               ELSE /\ rpc' = "walk"
                    /\ result' = None
                    /\ current_dir' = sd
    /\ UNCHANGED fs

\* the call from a page of the vault
Resolve == ResolveAt(SourceDirs)

\* a turn of the loop, lines 101-111: the graphics directory of current_dir
\* is tried
WalkStep ==
    /\ UNCHANGED <<bvars, mvars, cvars, ivars>>
    /\ rpc = "walk"
    /\ LET f == WalkFind(current_dir, NormaliseSeparators(reference))
       IN  IF f # None
           THEN /\ rpc' = "returned"
                /\ result' = f
           ELSE /\ rpc' = "tried"
                /\ UNCHANGED result
    /\ UNCHANGED <<fs, source_dir, reference, current_dir>>

\* the end of the turn, lines 113-116: the loop is left at ctx.source_root,
\* else current_dir becomes its parent
WalkUp ==
    /\ UNCHANGED <<bvars, mvars, cvars, ivars>>
    /\ rpc = "tried"
    /\ IF current_dir = SourceRoot
       THEN /\ rpc' = "returned"
            /\ result' = None
            /\ UNCHANGED current_dir
       ELSE /\ rpc' = "walk"
            /\ current_dir' = Parent(current_dir)
            /\ UNCHANGED result
    /\ UNCHANGED <<fs, source_dir, reference>>

NextResolve ==
    \/ CreateNode
    \/ Resolve
    \/ WalkStep
    \/ WalkUp

SpecResolve == InitResolve /\ [][NextResolve]_vars

\* the directories resolve_asset_reference may be called with: those of the
\* vault, and outside it the filesystem root and its graphics directory
AnyDirs == SourceDirs \cup {<<>>, <<"graphics">>}

NextResolveAnywhere ==
    \/ CreateNode
    \/ ResolveAt(AnyDirs)
    \/ WalkStep
    \/ WalkUp

\* a call runs on: a step of the loop that can be taken is taken
SpecResolveFair ==
    InitResolve /\ [][NextResolveAnywhere]_vars /\ WF_vars(WalkStep) /\ WF_vars(WalkUp)

-----------------------------------------------------------------------------
(* src/builder/utils.py and src/builder/assets.py: normalise_image_src *)

\* Path.relative_to(ancestor) for a path inside ancestor
RelativeTo(path, ancestor) == SubSeq(path, Len(ancestor) + 1, Len(path))

\* the length of the longest common prefix of two paths
RECURSIVE CommonPrefixLen(_, _)
CommonPrefixLen(p, q) ==
    IF p = <<>> \/ q = <<>> \/ Head(p) # Head(q) THEN 0
    ELSE 1 + CommonPrefixLen(Tail(p), Tail(q))

\* posix_relpath: posixpath.relpath(target, start), one ".." for every
\* directory of start below the common prefix, then the rest of target
PosixRelpath(target, start) ==
    LET c == CommonPrefixLen(target, start)
        segs == [i \in 1..(Len(start) - c) |-> ".."] \o SubSeq(target, c + 1, Len(target))
    IN  Ref("plain", IF segs = <<>> THEN <<".">> ELSE segs)

\* normalise_image_src for a non-blank raw_reference; resolved is its
\* resolved_asset_path, path the string it returns
NormaliseImageSrc(dir, relative_dir, raw_reference) ==
    LET stripped == Strip(raw_reference)
        found == ResolveAssetReference(dir, stripped)
    IN  [resolved |-> found,
         path |-> IF found = None THEN stripped
                  ELSE PosixRelpath(RelativeTo(found, SourceRoot), relative_dir)]

-----------------------------------------------------------------------------
(* src/builder/markdown.py: render_markdown, a line with an image *)

\* the image references of a page: those of the resolver and an upper-case
\* spelling of the Excalidraw Markdown name
ImageSources ==
    References \cup {Ref("plain", <<"D.EXCALIDRAW.MD">>),
                     Ref("plain", <<"a", "D.EXCALIDRAW.MD">>)}

\* src.lower().endswith('.excalidraw')
LowerEndsWithExcalidraw(ref) ==
    ref.style # "padded" /\ Last(ref.segs) = "d.excalidraw"

\* src.lower().endswith('.excalidraw.md')
LowerEndsWithExcalidrawMd(ref) ==
    ref.style # "padded" /\ Last(ref.segs) \in {"d.excalidraw.md", "D.EXCALIDRAW.MD"}

\* src.endswith('.excalidraw.md')
EndsWithExcalidrawMd(ref) ==
    ref.style # "padded" /\ Last(ref.segs) = "d.excalidraw.md"

\* src.replace('.excalidraw.md', '.excalidraw')
ReplaceExcalidrawMd(ref) ==
    Ref(ref.style, [i \in DOMAIN ref.segs |->
                       IF ref.segs[i] = "d.excalidraw.md" THEN "d.excalidraw"
                       ELSE ref.segs[i]])

\* resolved_path.suffix.lower()
PathSuffixLower(path) ==
    CASE Last(path) = "d.excalidraw" -> ".excalidraw"
      [] Last(path) = "d.excalidraw.md" -> ".md"
      [] OTHER -> ""

\* lines 73-75
IsExcalidraw(s, found) ==
    \/ LowerEndsWithExcalidraw(s)
    \/ LowerEndsWithExcalidrawMd(s)
    \/ (found # None /\ PathSuffixLower(found) = ".excalidraw")

\* a fallback that leaves the .md of an unresolved reference in place
ExcalidrawSrcKeepsMd(s, found) ==
    IF found # None THEN Ref("plain", <<Last(found)>>) ELSE s

\* lines 80-84: excalidraw_src
ExcalidrawSrc(s, found) ==
    IF found # None THEN Ref("plain", <<Last(found)>>)
    ELSE IF EndsWithExcalidrawMd(s) THEN ReplaceExcalidrawMd(s) ELSE s

InitRender ==
    /\ BuilderOff
    /\ ConverterIdle
    /\ InlineIdle
    /\ fs = FixedFs
    /\ rpc = "setup"
    /\ source_dir = None
    /\ reference = None
    /\ current_dir = None
    /\ result = None
    /\ mpc = "setup"
    /\ page_dir = None
    /\ src = None
    /\ resolved_path = None
    /\ resolved_asset_path = None
    /\ html_lines = <<>>

\* render_markdown comes to a line with one image or embed: lines 57-101
RenderImage ==
    /\ UNCHANGED <<bvars, rvars, cvars, ivars>>
    /\ mpc = "setup"
    /\ \E dir \in SourceDirs, s \in ImageSources :
        LET found == ResolveAssetReference(dir, s)
            relative_dir == RelativeTo(dir, SourceRoot)
            is_excalidraw == IsExcalidraw(s, found)
            normalised == NormaliseImageSrc(dir, relative_dir,
                              IF is_excalidraw THEN ExcalidrawSrc(s, found) ELSE s)
        IN  /\ page_dir' = dir
            /\ src' = s
            /\ resolved_path' = found
            /\ resolved_asset_path' = normalised.resolved
            /\ html_lines' = Append(html_lines,
                    [tag |-> IF is_excalidraw THEN "excalidraw-embed" ELSE "img",
                     src |-> normalised.path])
    /\ mpc' = "rendered"

NextRender ==
    \/ CreateNode
    \/ RenderImage

SpecRender == InitRender /\ [][NextRender]_vars

-----------------------------------------------------------------------------
(* Properties of resolve_asset_reference, checked under SpecResolve *)

\* path is an existing regular file
IsRegularFile(path) == path \in DOMAIN fs /\ fs[path].kind = "file"

\* path is an existing regular file inside the vault root
IsVaultFile(path) ==
    /\ IsRegularFile(path)
    /\ Len(path) >= Len(SourceRoot)
    /\ \A i \in 1..Len(SourceRoot) : path[i] = SourceRoot[i]

\* the directories from dir up to and including the vault root, nearest first
RECURSIVE UpToRoot(_)
UpToRoot(dir) ==
    IF dir = SourceRoot \/ dir = <<>> THEN <<dir>> ELSE <<dir>> \o UpToRoot(Front(dir))

\* dir/ref, followed by dir/ref.excalidraw when ref is extensionless
NameThenExcalidraw(dir, ref) ==
    <<Candidate(dir, ref, "")>>
    \o (IF ContainsDot(ref) THEN <<>> ELSE <<Candidate(dir, ref, ".excalidraw")>>)

RECURSIVE GraphicsCandidates(_, _)
GraphicsCandidates(dirs, ref) ==
    IF dirs = <<>> THEN <<>>
    ELSE NameThenExcalidraw(Append(Head(dirs), "graphics"), ref)
         \o GraphicsCandidates(Tail(dirs), ref)

\* the candidates of a bare reference in the order they are tried
CandidatesInOrder(dir, ref) ==
    NameThenExcalidraw(dir, ref) \o GraphicsCandidates(UpToRoot(dir), ref)

\* the reference of the call, with its separators normalised
NormalisedReference == NormaliseSeparators(reference)

\* C7: for a bare reference (no path separator) the function returns the
\* first candidate that is an existing regular file inside the vault, in the
\* order source_dir/ref, source_dir/ref.excalidraw (extensionless ref only),
\* then dir/graphics/ref and dir/graphics/ref.excalidraw for every directory
\* from source_dir up to the vault root; it returns none exactly when there
\* is no such candidate.
C7_BareReferenceOrder ==
    (rpc = "returned" /\ ~ContainsSlash(NormalisedReference)) =>
        LET L == CandidatesInOrder(source_dir, NormalisedReference)
            ok == {i \in DOMAIN L : IsVaultFile(L[i])}
        IN  IF ok = {} THEN result = None
            ELSE result = L[CHOOSE i \in ok : \A j \in ok : i <= j]

\* C7 witness: an extensionless bare reference was resolved from v/a to a
\* file of a graphics directory while a later candidate exists as well
C7_Witness ==
    /\ rpc = "returned"
    /\ ~ContainsSlash(NormalisedReference)
    /\ ~ContainsDot(NormalisedReference)
    /\ source_dir = <<"v", "a">>
    /\ result # None
    /\ Last(Front(result)) = "graphics"
    /\ LET L == CandidatesInOrder(source_dir, NormalisedReference)
       IN  Cardinality({i \in DOMAIN L : IsVaultFile(L[i])}) > 1

\* C8: a reference that contains a path separator (after backslashes are
\* normalised) and does not name an existing regular file relative to the
\* referencing directory resolves to none.
C8_BrokenPathIsNone ==
    ( /\ rpc = "returned"
      /\ ContainsSlash(NormalisedReference)
      /\ ~IsRegularFile(Candidate(source_dir, NormalisedReference, "")) )
    => result = None

\* C8 witness: such a reference resolved to none although the same relative
\* path names a file of the vault under the graphics directory of the
\* referencing directory or of an ancestor
C8_Witness ==
    /\ rpc = "returned"
    /\ ContainsSlash(NormalisedReference)
    /\ ~IsRegularFile(Candidate(source_dir, NormalisedReference, ""))
    /\ result = None
    /\ LET dirs == UpToRoot(source_dir)
       IN  \E i \in DOMAIN dirs :
              IsVaultFile(Candidate(Append(dirs[i], "graphics"), NormalisedReference, ""))

\* C9: every file the function returns is an existing regular file whose
\* resolved path lies inside the vault root.
C9_ResultInsideVault ==
    (rpc = "returned" /\ result # None) => IsVaultFile(result)

\* C9 witness: a reference with a ".." segment was resolved to a file while a
\* link of the vault points outside it
C9_Witness ==
    /\ rpc = "returned"
    /\ result # None
    /\ \E i \in DOMAIN reference.segs : reference.segs[i] = ".."
    /\ \E p \in DOMAIN fs : fs[p].kind = "link"

\* C24: resolve_asset_reference always terminates: for every referencing
\* directory, at or below ctx.source_root or not, and every reference, the
\* upward graphics walk reaches its stopping condition after finitely many
\* turns and returns a file or none.
C24_WalkTerminates == (rpc = "walk") ~> (rpc = "returned")

-----------------------------------------------------------------------------
(* Properties of the image branch of render_markdown, checked under SpecRender *)

\* the value in the src attribute of the line rendered last
EmittedSrc == html_lines[Len(html_lines)].src

\* the image reference did not resolve: neither as written (line 70) nor as
\* normalise_image_src looked it up
Unresolved == mpc = "rendered" /\ resolved_path = None /\ resolved_asset_path = None

\* a string without the blanks around it
Trimmed(s) == [s EXCEPT !.style = IF @ = "padded" THEN "plain" ELSE @]

\* a string that ends in .excalidraw.md, every .excalidraw.md of it turned
\* into .excalidraw; any other string as it is
WithoutMd(s) ==
    IF s.style # "padded" /\ s.segs[Len(s.segs)] = "d.excalidraw.md"
    THEN [s EXCEPT !.segs = [i \in DOMAIN s.segs |->
                                IF s.segs[i] = "d.excalidraw.md" THEN "d.excalidraw"
                                ELSE s.segs[i]]]
    ELSE s

C11_EmitsPathOfResolvedFile ==
    (mpc = "rendered" /\ resolved_path # None) =>
        EmittedSrc = PosixRelpath(RelativeTo(resolved_path, SourceRoot),
                                  RelativeTo(page_dir, SourceRoot))

-----------------------------------------------------------------------------
(* src/build.py: MarkdownConverter._render_inline, strings *)

\* A string is a sequence of tokens.  A token is a character of the text
\* (k = "char"), a piece of markup the function writes (k = "markup", c the
\* markup), or a placeholder of a stashed span (k = "placeholder", c its
\* kind and n its index); e counts how often html.escape has changed the
\* token: the character "&" with e = 1 is "&amp;", with e = 2 "&amp;amp;".
Tok(c) == [k |-> "char", c |-> c, e |-> 0, n |-> 0]

Markup(c) == [k |-> "markup", c |-> c, e |-> 0, n |-> 0]

Placeholder(kind, idx) == [k |-> "placeholder", c |-> kind, e |-> 0, n |-> idx]

\* the string of the characters cs
Chars(cs) == [i \in DOMAIN cs |-> Tok(cs[i])]

\* the character U+0060, which a TLA+ string cannot hold
Backtick == "U+0060"

\* the pieces a written string is made of, and the characters of each; the
\* scheme "http://" stands as one character, none of its characters being
\* markup
Pieces ==
    {"a", "&", "<", "\"", "_", "*", " ", "|", Backtick,
     "**a**", "_a_", "[[a]]", "$$a$$", "~~a~~", "![a](a)", "<u>a</u>"}

PieceChars(p) ==
    CASE p = "**a**"   -> <<"*", "*", "a", "*", "*">>
      [] p = "_a_"     -> <<"_", "a", "_">>
      [] p = "[[a]]"   -> <<"[", "[", "a", "]", "]">>
      [] p = "$$a$$"   -> <<"$", "$", "a", "$", "$">>
      [] p = "~~a~~"   -> <<"~", "~", "a", "~", "~">>
      [] p = "![a](a)" -> <<"!", "[", "a", "]", "(", "a", ")">>
      [] p = "<u>a</u>" -> <<"<", "u", ">", "a", "<", "/", "u", ">">>
      [] p = "[a](http://a)" -> <<"[", "a", "]", "(", "http://", "a", ")">>
      [] OTHER         -> <<p>>

\* the string the pieces ps spell
RECURSIVE Spell(_)
Spell(ps) == IF ps = <<>> THEN <<>> ELSE Chars(PieceChars(Head(ps))) \o Spell(Tail(ps))

\* the markup a written string w is put into
Forms ==
    {"text", "wiki", "wiki_alias", "wiki_image", "image", "link", "external_link",
     "code", "bold_code"}

\* the text of form f around the written string w
Compose(f, w) ==
    CASE f = "text"          -> Spell(w)
      [] f = "wiki"          -> Chars(<<"[", "[">>) \o Spell(w) \o Chars(<<"]", "]">>)
      [] f = "wiki_alias"    -> Chars(<<"[", "[">>) \o Spell(w) \o Chars(<<"|", "a", "]", "]">>)
      [] f = "wiki_image"    -> Chars(<<"!", "[", "[">>) \o Spell(w) \o Chars(<<"]", "]">>)
      [] f = "image"         -> Chars(<<"!", "[", "a", "]", "(">>) \o Spell(w) \o Chars(<<")">>)
      [] f = "link"          -> Chars(<<"[", "a", "]", "(">>) \o Spell(w) \o Chars(<<")">>)
      [] f = "external_link" -> Chars(<<"[", "a", "]", "(", "http://">>) \o Spell(w)
                                    \o Chars(<<")">>)
      [] f = "code"          -> Chars(<<Backtick>>) \o Spell(w) \o Chars(<<Backtick>>)
      [] f = "bold_code"     -> Chars(<<"*", "*", Backtick>>) \o Spell(w)
                                    \o Chars(<<Backtick, "*", "*">>)

\* html_escape(s), with or without quote=True: it changes every token that
\* holds an ampersand, an angle bracket or a quote
HtmlEscape(str) ==
    [i \in DOMAIN str |->
        IF \/ str[i].e > 0
           \/ str[i].k = "markup"
           \/ str[i].k = "char" /\ str[i].c \in {"&", "<", ">", "\"", "'"}
        THEN [str[i] EXCEPT !.e = @ + 1]
        ELSE str[i]]

\* s.strip()
RECURSIVE StripStr(_)
StripStr(str) ==
    IF str # <<>> /\ Head(str) = Tok(" ") THEN StripStr(Tail(str))
    ELSE IF str # <<>> /\ Last(str) = Tok(" ") THEN StripStr(Front(str))
    ELSE str

\* url.lower().startswith(("http://", "https://", "mailto:"))
StartsWithScheme(url) == url # <<>> /\ Head(url) = Tok("http://")

\* the characters cs stand in str at place i
At(str, i, cs) ==
    /\ i + Len(cs) - 1 <= Len(str)
    /\ \A j \in 1..Len(cs) : str[i + j - 1] = Tok(cs[j])

\* the token is in the class [^...] that excludes the characters excl
InClass(t, excl) ==
    IF t.e > 0 \/ t.k = "placeholder" THEN TRUE
    ELSE IF t.k = "markup" THEN "<" \notin excl
    ELSE t.c \notin excl

\* the last place of the longest run of tokens of the class from place i on,
\* i - 1 when there is none
RECURSIVE Run(_, _, _)
Run(str, i, excl) ==
    IF i <= Len(str) /\ InClass(str[i], excl) THEN Run(str, i + 1, excl) ELSE i - 1

-----------------------------------------------------------------------------
(* src/build.py: MarkdownConverter._render_inline, the regular expressions *)

\* a match of a regular expression at a place: its groups 1 and 2, whether
\* group 2 took part, and the place of its last token
NoMatch == [ok |-> FALSE, g1 |-> <<>>, g2 |-> <<>>, has2 |-> FALSE, end |-> 0]

Match(g1, g2, has2, end) == [ok |-> TRUE, g1 |-> g1, g2 |-> g2, has2 |-> has2, end |-> end]

\* open([^excl]+)close at place i: the class excludes the first character of
\* close, so the greedy run ends where close has to begin
MatchDelimited(str, i, open, excl, close) ==
    LET a == i + Len(open)
        r == Run(str, a, excl)
    IN  IF At(str, i, open) /\ r >= a /\ At(str, r + 1, close)
        THEN Match(SubSeq(str, a, r), <<>>, FALSE, r + Len(close))
        ELSE NoMatch

\* (?<!d)d([^d]+)d(?!d) at place i
MatchItalic(str, i, d) ==
    LET m == MatchDelimited(str, i, <<d>>, {d}, <<d>>)
    IN  IF /\ m.ok
           /\ ~(i > 1 /\ str[i - 1] = Tok(d))
           /\ ~(m.end < Len(str) /\ str[m.end + 1] = Tok(d))
        THEN m
        ELSE NoMatch

\* open([^\]]{min,})\]\(([^)]+)\) at place i
MatchLabelUrl(str, i, open, min) ==
    LET a  == i + Len(open)
        r1 == Run(str, a, {"]"})
        b  == r1 + 3
        r2 == Run(str, b, {")"})
    IN  IF /\ At(str, i, open)
           /\ r1 - a + 1 >= min
           /\ At(str, r1 + 1, <<"]", "(">>)
           /\ r2 >= b
           /\ At(str, r2 + 1, <<")">>)
        THEN Match(SubSeq(str, a, r1), SubSeq(str, b, r2), TRUE, r2 + 1)
        ELSE NoMatch

\* open([^\]|]+)(?:\|([^\]]+))?\]\] at place i
MatchWiki(str, i, open) ==
    LET a  == i + Len(open)
        r1 == Run(str, a, {"]", "|"})
        b  == r1 + 2
        r2 == Run(str, b, {"]"})
    IN  IF ~(At(str, i, open) /\ r1 >= a) THEN NoMatch
        ELSE IF At(str, r1 + 1, <<"]", "]">>)
        THEN Match(SubSeq(str, a, r1), <<>>, FALSE, r1 + 2)
        ELSE IF At(str, r1 + 1, <<"|">>) /\ r2 >= b /\ At(str, r2 + 1, <<"]", "]">>)
        THEN Match(SubSeq(str, a, r1), SubSeq(str, b, r2), TRUE, r2 + 2)
        ELSE NoMatch

\* the first place from j on where the characters cs stand, 0 when nowhere
RECURSIVE FirstAt(_, _, _)
FirstAt(str, j, cs) ==
    IF j > Len(str) THEN 0
    ELSE IF At(str, j, cs) THEN j
    ELSE FirstAt(str, j + 1, cs)

\* \$\$([\s\S]+?)\$\$ at place i: the shortest group of at least one
\* character
MatchMath(str, i) ==
    LET j == FirstAt(str, i + 3, <<"$", "$">>)
    IN  IF At(str, i, <<"$", "$">>) /\ j > 0
        THEN Match(SubSeq(str, i + 2, j - 1), <<>>, FALSE, j + 1)
        ELSE NoMatch

\* the regular expressions of _render_inline, by the name of what they find
MatchPat(str, i, pat) ==
    CASE pat = "code"        -> MatchDelimited(str, i, <<Backtick>>, {Backtick}, <<Backtick>>)
      [] pat = "math"        -> MatchMath(str, i)
      [] pat = "wiki_image"  -> MatchWiki(str, i, <<"!", "[", "[">>)
      [] pat = "image"       -> MatchLabelUrl(str, i, <<"!", "[">>, 0)
      [] pat = "link"        -> MatchLabelUrl(str, i, <<"[">>, 1)
      [] pat = "bold_star"   -> MatchDelimited(str, i, <<"*", "*">>, {"*"}, <<"*", "*">>)
      [] pat = "bold_under"  -> MatchDelimited(str, i, <<"_", "_">>, {"_"}, <<"_", "_">>)
      [] pat = "italic_star" -> MatchItalic(str, i, "*")
      [] pat = "italic_under" -> MatchItalic(str, i, "_")
      [] pat = "strike"      -> MatchDelimited(str, i, <<"~", "~">>, {"~"}, <<"~", "~">>)
      [] pat = "underline"   -> MatchDelimited(str, i, <<"<", "u", ">">>, {"<"},
                                               <<"<", "/", "u", ">">>)
      [] pat = "wiki"        -> MatchWiki(str, i, <<"[", "[">>)

-----------------------------------------------------------------------------
(* src/build.py: MarkdownConverter._render_inline, the passes *)

\* The locals of _render_inline while it works are a record acc: the string
\* so far (out), the three lists of the caller, and the two lists of stashed
\* spans.

\* f"{open}{body}{close}"
Wrap(open, body, close) == <<Markup(open)>> \o body \o <<Markup(close)>>

\* target.split('/')[-1]
RECURSIVE AfterLastSlash(_)
AfterLastSlash(str) ==
    IF \E i \in DOMAIN str : str[i] = Tok("/")
    THEN AfterLastSlash(Tail(str))
    ELSE str

\* replace_wiki_image (lines 285-310); no written string holds a full stop,
\* so the target does not end with ".excalidraw" and the stem of its file
\* name is the file name
ReplaceWikiImage(m, acc) ==
    LET target   == StripStr(m.g1)
        alias    == IF m.has2 THEN StripStr(m.g2) ELSE <<>>
        filename == AfterLastSlash(target)
        alt_text == IF alias # <<>> THEN alias ELSE filename
    IN  [acc EXCEPT
            !.local_links = Append(@, target),
            !.out = @ \o <<Markup("<img src=\"")>> \o HtmlEscape(target)
                      \o <<Markup("\" alt=\"")>> \o HtmlEscape(alt_text)
                      \o <<Markup("\" class=\"wiki-image\" loading=\"lazy\" decoding=\"async\">")>>]

\* replace_image (lines 266-274)
ReplaceImage(m, acc) ==
    LET alt == m.g1
        url == m.g2
    IN  [acc EXCEPT
            !.local_links = IF url # <<>> /\ ~StartsWithScheme(url) THEN Append(@, url) ELSE @,
            !.out = @ \o <<Markup("<img src=\"")>> \o HtmlEscape(url)
                      \o <<Markup("\" alt=\"")>> \o HtmlEscape(alt)
                      \o <<Markup("\" loading=\"lazy\" decoding=\"async\">")>>]

\* replace_link (lines 276-283)
ReplaceLink(m, acc) ==
    LET label == m.g1
        url   == m.g2
    IN  [acc EXCEPT
            !.external_links = IF StartsWithScheme(url) THEN Append(@, url) ELSE @,
            !.local_links = IF StartsWithScheme(url) THEN @ ELSE Append(@, url),
            !.out = @ \o <<Markup("<a href=\"")>> \o HtmlEscape(url) \o <<Markup("\">")>>
                      \o label \o <<Markup("</a>")>>]

\* replace_wiki (lines 312-319)
ReplaceWiki(m, acc) ==
    LET target == StripStr(m.g1)
        alias  == IF m.has2 THEN StripStr(m.g2) ELSE target
    IN  [acc EXCEPT
            !.wiki_links = Append(@, target),
            !.out = @ \o <<Markup("<a class=\"wikilink\" data-wikilink-target=\"")>>
                      \o HtmlEscape(target) \o <<Markup("\" href=\"#\">")>>
                      \o HtmlEscape(alias) \o <<Markup("</a>")>>]

\* the replacement function that re.sub calls for the match m of pat, with
\* stash_code (lines 222-224) and stash_math (lines 228-230)
Replace(pat, m, acc) ==
    CASE pat = "code"         ->
            [acc EXCEPT
                !.out = @ \o <<Placeholder("CODE", Len(acc.code_spans))>>,
                !.code_spans = Append(@, HtmlEscape(m.g1))]
      [] pat = "math"         ->
            [acc EXCEPT
                !.out = @ \o <<Placeholder("MATH", Len(acc.math_spans))>>,
                !.math_spans = Append(@, m.g1)]
      [] pat = "wiki_image"   -> ReplaceWikiImage(m, acc)
      [] pat = "image"        -> ReplaceImage(m, acc)
      [] pat = "link"         -> ReplaceLink(m, acc)
      [] pat \in {"bold_star", "bold_under"} ->
            [acc EXCEPT !.out = @ \o Wrap("<strong>", m.g1, "</strong>")]
      [] pat \in {"italic_star", "italic_under"} ->
            [acc EXCEPT !.out = @ \o Wrap("<em>", m.g1, "</em>")]
      [] pat = "strike"       -> [acc EXCEPT !.out = @ \o Wrap("<del>", m.g1, "</del>")]
      [] pat = "underline"    -> [acc EXCEPT !.out = @ \o Wrap("<u>", m.g1, "</u>")]
      [] pat = "wiki"         -> ReplaceWiki(m, acc)

\* re.sub from place i on: the leftmost match is replaced and the scan goes
\* on behind it; a token no match begins at is copied
RECURSIVE Scan(_, _, _, _)
Scan(str, i, pat, acc) ==
    IF i > Len(str) THEN acc
    ELSE LET m == MatchPat(str, i, pat)
         IN  IF m.ok
             THEN Scan(str, m.end + 1, pat, Replace(pat, m, acc))
             ELSE Scan(str, i + 1, pat, [acc EXCEPT !.out = Append(@, str[i])])

\* text = re.sub(pattern, replacement, text)
Sub(pat, acc) == Scan(acc.out, 1, pat, [acc EXCEPT !.out = <<>>])

\* line 226: code spans are stashed, never the span
StashCodeNever(acc) == acc

\* line 226
StashCode(acc) == Sub("code", acc)

\* one re.sub after the other
RECURSIVE SubAll(_, _)
SubAll(pats, acc) ==
    IF pats = <<>> THEN acc ELSE SubAll(Tail(pats), Sub(Head(pats), acc))

\* the replacement of restore_math_segments for one expression (lines 242-250)
MathSegment(expression) ==
    LET expr == StripStr(expression)
    IN  IF expr = <<>> THEN <<>>
        ELSE <<Markup("<span class=\"math-latex\" data-latex=\"")>> \o HtmlEscape(expr)
                \o <<Markup("\">\\(")>> \o HtmlEscape(expr) \o <<Markup("\\)</span>")>>

\* the replacement of restore_code_segments for one span (line 237)
CodeSegment(code) == Wrap("<code>", code, "</code>")

\* the placeholders of one kind are replaced by the segments of their spans
RECURSIVE Restore(_, _, _)
Restore(str, kind, spans) ==
    IF str = <<>> THEN <<>>
    ELSE LET t == Head(str)
         IN  (IF t.k = "placeholder" /\ t.c = kind /\ t.n < Len(spans)
              THEN IF kind = "MATH" THEN MathSegment(spans[t.n + 1])
                   ELSE CodeSegment(spans[t.n + 1])
              ELSE <<t>>)
             \o Restore(Tail(str), kind, spans)

\* _render_inline(text, [], [], []): the spans are stashed (lines 226 and
\* 232), the text is escaped (233), the passes of lines 322-332 run in
\* their order, and the segments are restored (334-335)
InlineOf(str) ==
    LET stashed  == Sub("math", StashCode(
                        [out |-> str, wiki_links |-> <<>>, local_links |-> <<>>,
                         external_links |-> <<>>, code_spans |-> <<>>, math_spans |-> <<>>]))
        replaced == SubAll(<<"wiki_image", "image", "link", "bold_star", "bold_under",
                             "italic_star", "italic_under", "strike", "underline", "wiki">>,
                           [stashed EXCEPT !.out = HtmlEscape(@)])
    IN  [replaced EXCEPT
            !.out = Restore(Restore(@, "MATH", replaced.math_spans), "CODE",
                            replaced.code_spans)]

-----------------------------------------------------------------------------
(* src/build.py: MarkdownConverter._render_inline, called on a text *)

InitInline ==
    /\ BuilderOff
    /\ ResolverIdle
    /\ RendererIdle
    /\ ConverterIdle
    /\ ipc = "write"
    /\ written = <<>>
    /\ form = NoString
    /\ text = <<>>
    /\ rendered = <<>>
    /\ wiki_links = <<>>
    /\ local_links = <<>>
    /\ external_links = <<>>

\* the author writes one more piece
WritePiece ==
    /\ UNCHANGED <<bvars, rvars, mvars, cvars>>
    /\ ipc = "write"
    /\ Len(written) < MaxPieces
    /\ \E p \in Pieces : written' = Append(written, p)
    /\ UNCHANGED <<ipc, form, text, rendered, wiki_links, local_links, external_links>>

\* _render_inline is called on the written string in one of the forms, with
\* empty lists
RenderInline ==
    /\ UNCHANGED <<bvars, rvars, mvars, cvars>>
    /\ ipc = "write"
    /\ \E f \in Forms :
        LET done == InlineOf(Compose(f, written))
        IN  /\ form' = f
            /\ text' = Compose(f, written)
            /\ rendered' = done.out
            /\ wiki_links' = done.wiki_links
            /\ local_links' = done.local_links
            /\ external_links' = done.external_links
    /\ ipc' = "rendered"
    /\ UNCHANGED written

NextInline ==
    \/ WritePiece
    \/ RenderInline

SpecInline == InitInline /\ [][NextInline]_vars

-----------------------------------------------------------------------------
(* src/build.py: MarkdownConverter.convert *)

\* A line of the text, named by the first test of the loop it passes
\* (fence_pattern, heading_pattern, not line.strip(), ulist_pattern,
\* olist_pattern, blockquote_pattern, else paragraph text), with the groups
\* the pattern captures: the length of the indent, the level of the heading
\* and the content.
Line(kind, indent, level, content) ==
    [kind |-> kind, indent |-> indent, level |-> level, content |-> content]

\* the lines a text of the model is made of; the content of a blockquote
\* line may be a single blank; a paragraph line holds a wiki link, a heading
\* an image and a list item an external link
Lines ==
    {Line("fence", 0, 0, ""), Line("blank", 0, 0, ""), Line("text", 0, 0, "x"),
     Line("quote", 0, 0, " "), Line("text", 0, 0, "[[a]]")}
    \cup {Line("heading", 0, 1, "H1"), Line("heading", 0, 2, "H2"),
          Line("heading", 0, 3, "![a](a)")}
    \cup {Line("ul", 0, 0, "x"), Line("ul", 2, 0, "[a](http://a)")}
    \cup {Line(k, i, 0, "x") : k \in {"ol", "quote"}, i \in {0, 2}}

\* the sentinel of line 79
Sentinel == Line("blank", 0, 0, "")

\* an element of html_lines: an opening tag, a closing tag, or a whole
\* element (<li>, <p>, <h1>.., a line of code, the only one whose text the
\* model keeps)
Html(t, tag, indent) == [t |-> t, tag |-> tag, indent |-> indent, text |-> <<>>]

\* the line as it stands in the text
Raw(line) ==
    LET indent == [i \in 1..line.indent |-> Tok(" ")]
        content == Spell(<<line.content>>)
    IN  CASE line.kind = "fence"   -> Chars(<<Backtick, Backtick, Backtick>>)
          [] line.kind = "blank"   -> <<>>
          [] line.kind = "text"    -> content
          [] line.kind = "heading" -> [i \in 1..line.level |-> Tok("#")] \o Chars(<<" ">>)
                                          \o content
          [] line.kind = "ul"      -> indent \o Chars(<<"-", " ">>) \o content
          [] line.kind = "ol"      -> indent \o Chars(<<"1", ".", " ">>) \o content
          [] line.kind = "quote"   -> indent \o Chars(<<">", " ">>) \o content

\* " ".join(p).strip()
Joined(p) ==
    StripStr(Spell([i \in 1..(2 * Len(p) - 1) |->
                        IF i % 2 = 1 THEN p[(i + 1) \div 2] ELSE " "]))

\* the call self._render_inline(text, wiki_links, local_links, external_links)
\* on the content of a heading or of a list item, or on the lines of a
\* paragraph: the text is put down as handed to _render_inline
WithLinks(st, para) == [st EXCEPT !.inline_calls = Append(@, para)]

\* the three lists after a call of _render_inline that returned done
Extended(lists, done) ==
    [wiki_links     |-> lists.wiki_links \o done.wiki_links,
     local_links    |-> lists.local_links \o done.local_links,
     external_links |-> lists.external_links \o done.external_links]

\* the three lists after the calls of _render_inline on the texts calls, in
\* their order
RECURSIVE Inlined(_, _)
Inlined(calls, lists) ==
    IF calls = <<>> THEN lists
    ELSE Inlined(Tail(calls), Extended(lists, InlineOf(Joined(Head(calls)))))

\* s.strip() is empty
IsBlank(s) == s \in {"", " "}

\* the locals of convert as one value, the three link lists apart: the texts
\* that a step hands to _render_inline are kept in inline_calls
Locals ==
    [html |-> html_out, list_stack |-> list_stack, in_code_block |-> in_code_block,
     current_paragraph |-> current_paragraph, blockquote_stack |-> blockquote_stack,
     first_heading |-> first_heading, inline_calls |-> <<>>]

\* close_paragraph (lines 93-99)
CloseParagraph(st) ==
    IF st.current_paragraph # <<>>
    THEN IF \E i \in DOMAIN st.current_paragraph : ~IsBlank(st.current_paragraph[i])
         THEN [WithLinks(st, st.current_paragraph) EXCEPT
                    !.html = Append(@, Html("whole", "p", 0)),
                    !.current_paragraph = <<>>]
         ELSE [st EXCEPT !.current_paragraph = <<>>]
    ELSE st

\* close_lists (lines 101-104)
RECURSIVE CloseLists(_, _)
CloseLists(st, target_indent) ==
    IF st.list_stack # <<>> /\ Last(st.list_stack).indent > target_indent
    THEN LET top == Last(st.list_stack)
         IN  CloseLists([st EXCEPT !.list_stack = Front(@),
                                   !.html = Append(@, Html("close", top.tag, top.indent))],
                        target_indent)
    ELSE st

\* close_blockquotes (lines 106-109)
RECURSIVE CloseBlockquotes(_, _)
CloseBlockquotes(st, target_indent) ==
    IF st.blockquote_stack # <<>> /\ Last(st.blockquote_stack) > target_indent
    THEN CloseBlockquotes([st EXCEPT !.blockquote_stack = Front(@),
                                     !.html = Append(@, Html("close", "blockquote", 0))],
                          target_indent)
    ELSE st

\* a flush that leaves the lists and blockquotes open
FlushParagraphOnly(st) == CloseParagraph(st)

\* close_paragraph(); close_lists(); close_blockquotes()
\* (lines 116-118, 135-137, 149-151 and 199-201)
Flush(st) == CloseBlockquotes(CloseLists(CloseParagraph(st), -1), -1)

\* lines 114-128: a fence line
FenceLine(st) ==
    LET s1 == Flush(st)
    IN  IF s1.in_code_block
        THEN [s1 EXCEPT !.html = Append(@, Html("close", "pre", 0)),
                        !.in_code_block = FALSE]
        ELSE [s1 EXCEPT !.html = Append(@, Html("open", "pre", 0)),
                        !.in_code_block = TRUE]

\* lines 133-146: a heading line
HeadingLine(st, line) ==
    LET s1 == WithLinks(Flush(st), <<line.content>>)
    IN  [s1 EXCEPT !.html = Append(@, Html("whole", "h", line.level)),
                   !.first_heading = IF @ = NoString /\ line.level <= 2
                                     THEN line.content ELSE @]

\* lines 160-161 and 174-175: while list_stack and indent < list_stack[-1][1]
RECURSIVE CloseDeeperLists(_, _)
CloseDeeperLists(st, indent) ==
    IF st.list_stack # <<>> /\ indent < Last(st.list_stack).indent
    THEN CloseDeeperLists(CloseLists(st, indent - 1), indent)
    ELSE st

\* lines 154-182: a list item of type tag ("ul" or "ol")
ListLine(st, tag, line) ==
    LET indent == line.indent
        s1 == CloseBlockquotes(CloseParagraph(st), -1)
        s2 == CloseDeeperLists(s1, indent)
        s3 == IF \/ s2.list_stack = <<>>
                 \/ indent > Last(s2.list_stack).indent
                 \/ Last(s2.list_stack).tag # tag
              THEN [s2 EXCEPT !.list_stack = Append(@, [tag |-> tag, indent |-> indent]),
                              !.html = Append(@, Html("open", tag, indent))]
              ELSE s2
    IN  [WithLinks(s3, <<line.content>>) EXCEPT
            !.html = Append(@, Html("whole", "li", indent + 2))]

\* lines 188-189: while blockquote_stack and indent < blockquote_stack[-1]
RECURSIVE CloseDeeperBlockquotes(_, _)
CloseDeeperBlockquotes(st, indent) ==
    IF st.blockquote_stack # <<>> /\ indent < Last(st.blockquote_stack)
    THEN CloseDeeperBlockquotes(CloseBlockquotes(st, indent - 1), indent)
    ELSE st

\* lines 184-194: a blockquote line
BlockquoteLine(st, line) ==
    LET indent == line.indent
        s1 == CloseDeeperBlockquotes(CloseParagraph(st), indent)
        s2 == IF s1.blockquote_stack = <<>> \/ indent > Last(s1.blockquote_stack)
              THEN [s1 EXCEPT !.blockquote_stack = Append(@, indent),
                              !.html = Append(@, Html("open", "blockquote", 0))]
              ELSE s1
    IN  [s2 EXCEPT !.current_paragraph = Append(@, line.content)]

\* a line of code appended as it stands in the text
CodeLineUnescaped(st, line) ==
    [st EXCEPT !.html = Append(@, [Html("whole", "code", 0) EXCEPT !.text = Raw(line)])]

\* lines 130-132: a line inside a code block
CodeLine(st, line) ==
    [st EXCEPT !.html = Append(@, [Html("whole", "code", 0) EXCEPT
                                        !.text = HtmlEscape(Raw(line))])]

\* lines 111-196: the body of the loop for one line
ConvertStep(st, line) ==
    IF line.kind = "fence" THEN FenceLine(st)
    ELSE IF st.in_code_block THEN CodeLine(st, line)
    ELSE CASE line.kind = "heading" -> HeadingLine(st, line)
           [] line.kind = "blank"   -> Flush(st)
           [] line.kind = "ul"      -> ListLine(st, "ul", line)
           [] line.kind = "ol"      -> ListLine(st, "ol", line)
           [] line.kind = "quote"   -> BlockquoteLine(st, line)
           [] line.kind = "text"    ->
                [st EXCEPT !.current_paragraph = Append(@, line.content)]

\* the locals take the values of st and the link lists those of lists
BecomesWith(st, lists) ==
    /\ html_out' = st.html
    /\ list_stack' = st.list_stack
    /\ in_code_block' = st.in_code_block
    /\ current_paragraph' = st.current_paragraph
    /\ blockquote_stack' = st.blockquote_stack
    /\ first_heading' = st.first_heading
    /\ wiki_links' = lists.wiki_links
    /\ local_links' = lists.local_links
    /\ external_links' = lists.external_links

\* the locals after a step that has left them as st, the calls of
\* _render_inline of the step made
Becomes(st) ==
    BecomesWith(st, Inlined(st.inline_calls,
                            [wiki_links |-> wiki_links, local_links |-> local_links,
                             external_links |-> external_links]))

\* convert is called: lines 78-91
InitConvert ==
    /\ BuilderOff
    /\ ResolverIdle
    /\ RendererIdle
    /\ InlineIdle
    /\ cpc = "lines"
    /\ lines = <<>>
    /\ html_out = <<>>
    /\ list_stack = <<>>
    /\ in_code_block = FALSE
    /\ current_paragraph = <<>>
    /\ blockquote_stack = <<>>
    /\ first_heading = NoString

\* one turn of the loop of line 111 on the next line of the text
ConvertLine ==
    /\ UNCHANGED <<bvars, rvars, mvars, ipc, written, form, text, rendered>>
    /\ cpc = "lines"
    /\ Len(lines) < MaxLines
    /\ \E line \in Lines :
        /\ lines' = Append(lines, line)
        /\ Becomes(ConvertStep(Locals, line))
    /\ UNCHANGED cpc

\* the last turn of the loop, on the sentinel
ConvertSentinel ==
    /\ UNCHANGED <<bvars, rvars, mvars, ipc, written, form, text, rendered>>
    /\ cpc = "lines"
    /\ Becomes(ConvertStep(Locals, Sentinel))
    /\ cpc' = "flushed"
    /\ UNCHANGED lines

\* lines 199-210: the buffers are flushed and convert returns
ConvertReturn ==
    /\ UNCHANGED <<bvars, rvars, mvars, ipc, written, form, text, rendered>>
    /\ cpc = "flushed"
    /\ Becomes(Flush(Locals))
    /\ cpc' = "returned"
    /\ UNCHANGED lines

NextConvert ==
    \/ ConvertLine
    \/ ConvertSentinel
    \/ ConvertReturn

SpecConvert == InitConvert /\ [][NextConvert]_vars

-----------------------------------------------------------------------------
(* Properties of MarkdownConverter.convert, checked under SpecConvert *)

\* where html_lines holds the opening (t = "open") or closing (t = "close")
\* tag of tag
TagsAt(t, tag) == {i \in DOMAIN html_out : html_out[i].t = t /\ html_out[i].tag = tag}

\* two unordered items at indent 0, an ordered item at indent 2, an
\* unordered item at indent 0
NestedListText ==
    <<Line("ul", 0, 0, "x"), Line("ul", 0, 0, "x"), Line("ol", 2, 0, "x"),
      Line("ul", 0, 0, "x")>>

\* C12: converting two unordered items at indent 0, then one ordered item at
\* indent 2, then one unordered item at indent 0 emits exactly one <ul>
\* opening tag and one <ol> opening tag nested inside it, closed in matching
\* order: the item that returns to indent 0 continues the open <ul>.
C12_OneListContinued ==
    (cpc = "returned" /\ lines = NestedListText) =>
        /\ Cardinality(TagsAt("open", "ul")) = 1
        /\ Cardinality(TagsAt("open", "ol")) = 1
        /\ Cardinality(TagsAt("close", "ul")) = 1
        /\ Cardinality(TagsAt("close", "ol")) = 1
        /\ \A a \in TagsAt("open", "ul"), b \in TagsAt("open", "ol"),
              c \in TagsAt("close", "ol"), d \in TagsAt("close", "ul") :
              a < b /\ b < c /\ c < d

\* C19: a list item of one type at the indent of the top of the list stack,
\* whose top has the other type, closes the open list before the new one is
\* opened, so the list stack never holds two entries with the same indent.
C19_StackIndentsDistinct ==
    \A i, j \in DOMAIN list_stack :
        i # j => list_stack[i].indent # list_stack[j].indent

\* the paragraphs with text that the lines ls begin, counted from the text
\* alone: a run of paragraph lines ends at a fence, a heading, a blank line
\* or a list item, a blockquote line starts a run of its own, and inside a
\* code block nothing is a paragraph
RECURSIVE ParagraphsBegun(_, _, _)
ParagraphsBegun(ls, in_code, has_text) ==
    LET ended == IF has_text THEN 1 ELSE 0
    IN  IF ls = <<>> THEN ended
        ELSE LET l == Head(ls)
             IN  IF l.kind = "fence"
                 THEN ended + ParagraphsBegun(Tail(ls), ~in_code, FALSE)
                 ELSE IF in_code THEN ParagraphsBegun(Tail(ls), TRUE, FALSE)
                 ELSE IF l.kind = "text"
                 THEN ParagraphsBegun(Tail(ls), FALSE, TRUE)
                 ELSE IF l.kind = "quote"
                 THEN ended + ParagraphsBegun(Tail(ls), FALSE, l.content # " ")
                 ELSE ended + ParagraphsBegun(Tail(ls), FALSE, FALSE)

\* C20: when convert returns, the paragraph buffer, the list stack and the
\* blockquote stack are empty, every paragraph begun has been emitted, and
\* every <ul>, <ol> and <blockquote> opened has had its closing tag emitted,
\* also when the text ends without a blank line.
C20_AllClosedAtReturn ==
    cpc = "returned" =>
        /\ current_paragraph = <<>>
        /\ list_stack = <<>>
        /\ blockquote_stack = <<>>
        /\ Cardinality({i \in DOMAIN html_out : html_out[i].tag = "p"})
               = ParagraphsBegun(lines, FALSE, FALSE)
        /\ \A tag \in {"ul", "ol", "blockquote"} :
              /\ Cardinality(TagsAt("open", tag)) = Cardinality(TagsAt("close", tag))
              /\ \A i \in TagsAt("open", tag) : \E j \in TagsAt("close", tag) : i < j

\* C20 witness: a text with a blockquote and a list that ends in a paragraph
\* line, no blank line after it, was converted
C20_Witness ==
    /\ cpc = "returned"
    /\ lines # <<>>
    /\ Last(lines).kind = "text"
    /\ TagsAt("open", "blockquote") # {}
    /\ TagsAt("open", "ul") # {}
    /\ TagsAt("open", "ol") # {}
    /\ html_out[Len(html_out)].t = "close"

\* the line that the step of the loop just taken has worked on
LineTaken == IF lines' = lines THEN Sentinel ELSE Last(lines')

\* C21: while the fenced-code flag is set, every line that is not a fence
\* delimiter appends exactly one HTML-escaped line to the output and leaves
\* the list stack, the blockquote stack, the paragraph buffer, the three link
\* lists and the inferred title unchanged, also when the line looks like a
\* heading, a list item, a blockquote, a link or a blank line.
C21_CodeLinesVerbatim ==
    [][(cpc = "lines" /\ in_code_block /\ LineTaken.kind # "fence") =>
            /\ html_out' = Append(html_out, [Html("whole", "code", 0) EXCEPT
                                                !.text = HtmlEscape(Raw(LineTaken))])
            /\ UNCHANGED <<list_stack, blockquote_stack, current_paragraph, wiki_links,
                           local_links, external_links, first_heading>>]_vars

\* C21 witness: inside a code block that follows a paragraph with a wiki
\* link, a line that looks like a blockquote was appended with its > escaped
C21_Witness ==
    /\ cpc = "lines"
    /\ in_code_block
    /\ Last(lines) = Line("quote", 0, 0, "x")
    /\ Last(html_out) = [Html("whole", "code", 0) EXCEPT
                            !.text = <<[Tok(">") EXCEPT !.e = 1], Tok(" "), Tok("x")>>]
    /\ blockquote_stack = <<>>
    /\ current_paragraph = <<>>
    /\ wiki_links = <<Chars(<<"a">>)>>

\* the containers of C23
Containers == {"ul", "ol", "blockquote"}

\* the containers still open after the tags of h, read from the left with the
\* containers open in open: an opening tag is pushed, a closing tag pops the
\* top when the top is its container; Misnested when a closing tag meets
\* another top or none
Misnested == <<"misnested">>

RECURSIVE StillOpen(_, _)
StillOpen(h, open) ==
    IF h = <<>> THEN open
    ELSE LET x == Head(h)
         IN  IF x.tag \notin Containers \/ x.t = "whole" THEN StillOpen(Tail(h), open)
             ELSE IF x.t = "open" THEN StillOpen(Tail(h), Append(open, x.tag))
             ELSE IF open # <<>> /\ Last(open) = x.tag
             THEN StillOpen(Tail(h), Front(open))
             ELSE Misnested

\* C23: in the blocks that convert emits, the tags <ul>, <ol> and
\* <blockquote> are properly nested: each closing tag closes the most
\* recently opened container that is still open, whatever the order of list
\* items, blockquote lines, paragraph lines, blank lines, headings and fences.
C23_ProperlyNested == StillOpen(html_out, <<>>) # Misnested

\* C27: in the output of convert, every <pre><code> emitted has a matching
\* </code></pre> emitted after it, and the fenced-code flag is false when
\* convert returns, also for a text that ends while a fence is open.
C27_FencesClosedAtReturn ==
    cpc = "returned" =>
        /\ ~in_code_block
        /\ Cardinality(TagsAt("open", "pre")) = Cardinality(TagsAt("close", "pre"))
        /\ \A i \in TagsAt("open", "pre") : \E j \in TagsAt("close", "pre") : i < j

-----------------------------------------------------------------------------
(* Titles and the about page of VaultBuilder, checked under SpecBuild *)

\* the file of the vault a page was made from
EntryOf(page_id) == CHOOSE e \in vault : e.path = page_id

\* the page was made from a Markdown file
IsMarkdownPage(page_id) == SuffixLower(Last(page_id)) \in ALLOWED_MD_EXTENSIONS

\* the page is the README of its directory
IsReadmePage(page_id) == Lower(Last(page_id)) \in README_BASENAMES

\* C13 as stated: for every Markdown page, README or ordinary, the title is
\* the document's first H1/H2 heading when there is one, and the humanized
\* filename or directory name only when there is none.
C13_TitleIsFirstHeading ==
    \A p \in DOMAIN pages :
        IsMarkdownPage(p) =>
            IF EntryOf(p).h # "" THEN pages[p].title = EntryOf(p).h
            ELSE pages[p].title \in {TitleCase(Stem(Last(p))), TitleCase(Name(Front(p)))}

\* C13 as amended: the title of a Markdown README page is the document's
\* first H1/H2 heading when there is one and the humanized name of its
\* directory otherwise; the title of an ordinary Markdown page is the
\* humanized filename, with or without a heading in the document.
C13_TitleByKindOfPage ==
    \A p \in DOMAIN pages :
        IsMarkdownPage(p) =>
            IF IsReadmePage(p)
            THEN pages[p].title = (IF EntryOf(p).h # "" THEN EntryOf(p).h
                                   ELSE TitleCase(Name(Front(p))))
            ELSE pages[p].title = TitleCase(Stem(Last(p)))

\* C13 witness: a build has ended with a README that has a heading and an
\* ordinary page that has a heading other than its title
C13_Witness ==
    /\ pc = "done"
    /\ \E p, q \in DOMAIN pages :
          /\ IsMarkdownPage(p) /\ IsReadmePage(p) /\ EntryOf(p).h # ""
          /\ IsMarkdownPage(q) /\ ~IsReadmePage(q) /\ EntryOf(q).h # ""
          /\ pages[q].title # EntryOf(q).h

\* C14: the page of the vault root's README has one fixed title whatever its
\* first heading is: the title it has is the title the same vault gives it
\* when the README has no heading.
C14_RootTitleFixed ==
    \A p \in DOMAIN pages :
        (Len(p) = 1 /\ IsReadmePage(p)) =>
            pages[p].title = PageTitle([EntryOf(p) EXCEPT !.h = ""], TRUE)

\* the place of the first page registered for which Test holds, 0 for none
FirstRegistered(Test(_)) ==
    LET S == {i \in DOMAIN reg_order : Test(reg_order[i])}
    IN  IF S = {} THEN 0 ELSE CHOOSE i \in S : \A j \in S : i <= j

\* the page's file stem or one of its path segments starts with "about"
AboutByPrefix(page_id) ==
    \/ StartsWithAbout(Stem(Last(page_id)))
    \/ \E i \in DOMAIN page_id : StartsWithAbout(page_id[i])

\* the page's file stem starts with "about" or one of its path segments is
\* "about"
AboutByStemOrSegment(page_id) ==
    \/ StartsWithAbout(Stem(Last(page_id)))
    \/ \E i \in DOMAIN page_id : Lower(page_id[i]) = "about"

ComesBefore(p, q) ==
    LET c == CommonPrefixLen(p, q)
        p_is_file == Len(p) = c + 1
        q_is_file == Len(q) = c + 1
    IN  IF p_is_file /\ IsReadmePage(p) THEN TRUE
        ELSE IF q_is_file /\ IsReadmePage(q) THEN FALSE
        ELSE IF p_is_file # q_is_file THEN q_is_file
        ELSE Rank(p[c + 1]) < Rank(q[c + 1])

\* the pages were registered in traversal order
RegisteredInOrder ==
    \A i, j \in DOMAIN reg_order : i < j => ~ComesBefore(reg_order[j], reg_order[i])

\* aboutPageId is the first registered page that matches, none if none does
AboutIsFirst ==
    LET i == FirstRegistered(AboutByStemOrSegment)
    IN  about_page_id = (IF i = 0 THEN None ELSE reg_order[i])

\* within a build aboutPageId, once set, stays as it is
AboutKept == (run' = run /\ about_page_id # None) => about_page_id' = about_page_id

ReadmePathOf(k) == IF k = <<".">> THEN <<"README.md">> ELSE Append(k, "README.md")

\* C25: after the page registrations of a build, pathIndex[P.relPath] is P.id
\* for every page P of the pages map, and every pathIndex entry that names
\* the README.md path of a directory maps to the page that is that
\* directory's readmeId.
C25_PathIndexFaithful ==
    pc = "done" =>
        /\ \A p \in DOMAIN pages :
              /\ pages[p].rel_path \in DOMAIN path_index
              /\ path_index[pages[p].rel_path] = pages[p].page_id
        /\ \A k \in DOMAIN directories :
              ReadmePathOf(k) \in DOMAIN path_index =>
                  path_index[ReadmePathOf(k)] = directories[k].readmeId

\* C26: after a build, every entry of the directories map other than the
\* root has a parent that is a key of the map and lists the entry in its
\* subdirectories, so that every directory node is reached from the root by
\* following subdirectories.
C26_NodesHaveListedParent ==
    pc = "done" =>
        \A k \in DOMAIN directories \ {<<".">>} :
            /\ directories[k].parent \in DOMAIN directories
            /\ k \in Range(directories[directories[k].parent].subdirectories)

\* the files this run of build() has generated: the template files, the
\* assets copied from the vault and site-data.json
Generated ==
    TemplateFiles \cup {<<"site-data.json">>}
    \cup UNION {Range(directories[k].assetPaths) : k \in DOMAIN directories}

\* C22: after build() completes on a vault, the output directory holds
\* exactly the files this run generated (template files, assets copied from
\* the vault, site-data.json): a file that was in the output directory before
\* the run and that this run does not generate has been removed.
C22_OutputIsThisRun == pc = "done" => output = Generated

-----------------------------------------------------------------------------
(* Claims about _render_inline *)

\* the strings appended to the three lists
AllLinks == wiki_links \o local_links \o external_links

\* the string is made of characters of the text as they were written
AsWritten(str) == \A i \in DOMAIN str : str[i].k = "char" /\ str[i].e = 0

\* the written string is a target over the alphabet a & < " _ *
PlainTarget ==
    /\ written # <<>>
    /\ \A i \in DOMAIN written : written[i] \in {"a", "&", "<", "\"", "_", "*"}

\* C16: every string that _render_inline appends to the wiki-link, the
\* local-link or the external-link list is character for character the
\* target or URL written in the text: no character of it is replaced by an
\* HTML entity and no markup of the emphasis passes is in it, and a target
\* over the alphabet a & < " _ * written as a wiki link, a link or an image
\* is the one string appended to its list.
C16_LinksAreWritten ==
    ipc = "rendered" =>
        /\ \A i \in DOMAIN AllLinks : AsWritten(AllLinks[i])
        /\ PlainTarget /\ form \in {"wiki", "wiki_alias"} =>
                wiki_links = <<Spell(written)>>
        /\ PlainTarget /\ form \in {"link", "image", "wiki_image"} =>
                local_links = <<Spell(written)>>
        /\ PlainTarget /\ form = "external_link" =>
                external_links = <<Chars(<<"http://">>) \o Spell(written)>>

\* the written string is one or more blanks
BlankTarget ==
    /\ written # <<>>
    /\ \A i \in DOMAIN written : written[i] = " "

\* C17: a wiki link whose target is empty after trimming renders as just
\* the alias text, or as the empty string when it has no alias: no anchor
\* element is emitted and nothing is appended to the wiki-link list.
C17_EmptyTargetNoAnchor ==
    ipc = "rendered" /\ BlankTarget /\ form \in {"wiki", "wiki_alias"} =>
        /\ rendered = (IF form = "wiki_alias" THEN Chars(<<"a">>) ELSE <<>>)
        /\ wiki_links = <<>>

\* the token is a character of the text after html.escape, once
EscapedOnce(t) ==
    /\ t.k = "char"
    /\ t.e = (IF t.c \in {"&", "<", ">", "\"", "'"} THEN 1 ELSE 0)

\* the tokens i..j of the rendered string are a <code> element whose text
\* is, but for the escaping, the text between two backticks of the input
CodeElement(i, j) ==
    /\ rendered[i] = Markup("<code>")
    /\ rendered[j] = Markup("</code>")
    /\ j > i + 1
    /\ \A n \in (i + 1)..(j - 1) : EscapedOnce(rendered[n])
    /\ \E a \in DOMAIN text :
        /\ a + (j - i) \in DOMAIN text
        /\ text[a] = Tok(Backtick)
        /\ text[a + (j - i)] = Tok(Backtick)
        /\ \A n \in 1..(j - i - 1) : text[a + n] = [rendered[i + n] EXCEPT !.e = 0]

\* the written string can be the content of one code span
CodeContent ==
    /\ written # <<>>
    /\ \A i \in DOMAIN written : written[i] # Backtick

\* C18: for every inline text, the content of a backtick code span is
\* emitted inside <code> with HTML escaping only and no later pass
\* transforms it: a string without backticks written between two backticks
\* renders as one <code> element that holds the escaped string, also inside
\* bold markers, and every <code> element of every rendered text holds the
\* escaped characters that stand between two backticks of the text.
C18_CodeSpanLiteral ==
    ipc = "rendered" =>
        /\ CodeContent /\ form = "code" =>
                rendered = CodeSegment(HtmlEscape(Spell(written)))
        /\ CodeContent /\ form = "bold_code" =>
                rendered = Wrap("<strong>", CodeSegment(HtmlEscape(Spell(written))),
                                "</strong>")
        /\ \A i \in DOMAIN rendered :
                rendered[i] = Markup("<code>") =>
                    \E j \in DOMAIN rendered : CodeElement(i, j)

\* bold markers between backticks came out as they were written
C18_Witness ==
    /\ ipc = "rendered"
    /\ form = "code"
    /\ written = <<"**a**">>
    /\ rendered = Wrap("<code>", Chars(<<"*", "*", "a", "*", "*">>), "</code>")

====
